---- MODULE Spec2Model ----
(***************************************************************************)
(* A model of the rust-synthesizer core: the ADSR envelope                 *)
(* (waveforms/adsr_envelope.rs), the recording / playback state machine    *)
(* (state/mod.rs, input/commands/*.rs) and the playback scheduler          *)
(* (input/commands/recording_control.rs).                                  *)
(*                                                                         *)
(* Times are integers counting twentieths of a second, so that the 0.05 s  *)
(* of max_sustain_samples and the 50 ms trigger window of handle_playback  *)
(* are one unit.  Amplitudes are exact rationals [n, d] with d > 0.        *)
(***************************************************************************)
EXTENDS Integers, Sequences, FiniteSets, TLC

\* ------------------------------------------------------------- bounds
\* samples per second of the wrapped source (the program uses 44100)
SampleRate == 20
\* largest attack, decay and release time given to ADSREnvelope::new, in 1/20 s
MaxAttackT == 2
MaxDecayT == 2
MaxReleaseT == 3
\* sustain levels are k / SustainDen for k in 0..SustainDen
SustainDen == 2

\* number of tracks modelled (the program creates 4)
NumTracks == 2
\* horizon of the frame clock, in 1/20 s
MaxTime == 3
\* longest frame, in 1/20 s (the program aims at 16 ms)
MaxGap == 2
\* horizon of the frame clock when loops imported beforehand are played back
SchedMaxTime == 8
\* horizon of the frame clock when track parameters are edited
ParamsMaxTime == 1
\* the frame loop of SpecRelease ends when `now` would pass this
ReleaseMaxTime == 8
\* the frame loop of SpecMixer ends when `now` would pass this
MixerMaxTime == 2

\* ------------------------------------------------------------- program constants
\* frame_time_threshold, 50 ms
FrameTimeThreshold == 1
\* the value LAST_LOOP_TIME starts with and is reset to
LastLoopTimeReset == -1
\* Track::new octave
DefaultOctave == 4
\* Track::new / State::new release
DefaultRelease == 20
\* Track::new / State::new attack, decay and sustain
DefaultAttack == 0
DefaultDecay == 0
DefaultSustain == 50
\* the largest u8
U8Max == 255
\* fader_height of handle_adsr_fader_mouse, in pixels
FaderHeight == 50
\* key release stops the sink for release <= 10
InstantReleaseMax == 10
\* the visual clear time is at least 100 ms
VisualClearMin == 2
\* the audio updater clears the release time after 2 s
AudioClearAfter == 40
\* release_normalized() * 2.0 seconds = release / ParamMax * ParamScale units
ParamMax == 99
ParamScale == 40
\* 0.05 s = 1 / TimeDen seconds: the unit of the envelope's time arguments
TimeDen == 20
\* the amplitude threshold 0.0001 = 1 / SilenceDen
SilenceDen == 10000

Max(a, b) == IF a >= b THEN a ELSE b
Min(a, b) == IF a <= b THEN a ELSE b

\* Option<usize>
NoSample == [some |-> FALSE, val |-> 0]
SomeSample(v) == [some |-> TRUE, val |-> v]

\* exact rationals
Rat(n, d) == [n |-> n, d |-> d]
RatLe(x, y) == x.n * y.d <= y.n * x.d
RatLt(x, y) == x.n * y.d < y.n * x.d
RatEq(x, y) == x.n * y.d = y.n * x.d
RatAbsDiffLe(x, y, step) ==
    LET num == x.n * y.d - y.n * x.d
        abs == IF num >= 0 THEN num ELSE 0 - num
    IN  abs * step.d <= step.n * x.d * y.d

\* pitch classes played in the model (the program has twelve)
NoteNames == {"C", "E"}
\* the value the release fader is set to in the model (it can give 0..99)
ReleaseSettings == {10}

TrackIds == 0 .. (NumTracks - 1)

\* Option<Instant>
NoInstant == [some |-> FALSE, val |-> 0]
SomeInstant(t) == [some |-> TRUE, val |-> t]

\* Option<(Instant, Note, i32)>
NoNoteStart == [some |-> FALSE, start_time |-> 0, note |-> "C", octave |-> DefaultOctave]
SomeNoteStart(t, n, o) == [some |-> TRUE, start_time |-> t, note |-> n, octave |-> o]

\* Option<(Key, Note)>; the key is determined by the note
NoKey == [some |-> FALSE, note |-> "C"]
SomeKey(n) == [some |-> TRUE, note |-> n]

RecordedNote(n, o, ts, dur) == [note |-> n, octave |-> o, timestamp |-> ts, duration |-> dur]

\* the three effects a track owns
EffectKinds == {"delay", "reverb", "flanger"}
\* Track::new: the effect disabled and freshly constructed
NewEffect == [enabled |-> FALSE, used |-> FALSE]


VARIABLES
    \* State
    tracks,                \* per track: recorded_notes, playing, octave, release
    current_track_id,
    recording_state,       \* "Stopped", "Recording", "Playing"
    recorded_notes,        \* the legacy top-level list
    recording_start_time,
    playback_start_time,
    current_note_start,
    pressed_key,
    key_release_time,
    release_legacy,        \* State::release
    \* the rodio sink: the queue of appended sources
    sink,
    \* static mut LAST_LOOP_TIME of handle_playback
    LAST_LOOP_TIME,
    \* the frame loop
    now,                   \* Instant::now(), in 1/20 s
    phase,                 \* "keyboard", "mouse", "playback", "release", "update"
    key_down,              \* a musical key went down in this frame
    \* observations
    last_op,               \* the operation that ran last
    tick,                  \* what the last handle_playback call computed
    pass,                  \* dispatches per pass of the loop in this session
    \* ADSREnvelope
    env,              \* the fields of the struct
    calls,            \* number of next() calls made
    finished,         \* next() has returned None
    released_by,      \* "none", "explicit" (release()) or "auto" (inside next())
    amp_at_release,   \* envelope amplitude at the moment release was triggered
    out,              \* what the last next() call computed
    prev_out          \* what the next() call before it computed

adsr_vars == <<env, calls, finished, released_by, amp_at_release, out, prev_out>>

daw_vars == <<tracks, current_track_id, recording_state, recorded_notes,
              recording_start_time, playback_start_time, current_note_start,
              pressed_key, key_release_time, release_legacy, sink, LAST_LOOP_TIME,
              now, phase, key_down, last_op, tick, pass>>

VARIABLES
    \* per track and effect: the enabled flag and whether the effect has
    \* processed samples since it was constructed or reset
    track_fx,
    \* State::delay_enabled, reverb_enabled, flanger_enabled
    legacy_fx

fx_vars == <<track_fx, legacy_fx>>

\* apply_track_effects with the enabled effects put around the source
apply_track_effects_Wired(source, fx) ==
    IF \E e \in EffectKinds : fx[e].enabled
    THEN [inner |-> source, effects |-> {e \in EffectKinds : fx[e].enabled}]
    ELSE source

\* MultiTrackMixer::apply_track_effects: the source comes back as it is from
\* both branches
apply_track_effects(source, fx) ==
    IF \E e \in EffectKinds : fx[e].enabled
    THEN source
    ELSE source

\* the source play_note_on_track builds for a note on a track: the enveloped
\* oscillator of the track's settings, passed through apply_track_effects
Source(track_id, n) ==
    apply_track_effects([track |-> track_id, note |-> n], track_fx[track_id])

VARIABLES
    \* one DelayEffect, FlangerEffect or ReverbEffect, driven through its
    \* public functions
    effect,
    \* whether the build checks integer overflow (debug) or wraps (release)
    overflow_checks,
    \* the last call made on the effect and what it returned
    fx_log

dsp_vars == <<effect, overflow_checks, fx_log>>

VARIABLES
    \* a note list on its way through export_track_to_midi and
    \* import_midi_to_track, and the last pitch and note name converted
    midi

midi_vars == <<midi>>

VARIABLES
    \* State::attack, State::decay and State::sustain
    legacy_adsr,
    \* observation: the track the last start_track_recording call recorded on
    recording_track,
    \* observation: how often the key-release branch of
    \* RecordingControlCommand::execute ran since pressed_key was last set,
    \* 2 standing for twice or more
    release_runs

param_vars == <<legacy_adsr, recording_track, release_runs>>

VARIABLES
    \* WasmAudioEngine::audio_context and master_gain: TRUE once init has set them
    audio_context,
    \* WasmAudioEngine::active_oscillators: per track id, the oscillator the
    \* engine holds for it, or NoOscillator
    active_oscillators,
    \* WasmSynthesizer::pressed_keys: the note names the map holds
    pressed_keys,
    \* WasmSynthesizer::tracks: per track id, its waveform and octave
    synth_tracks

wasm_vars == <<audio_context, active_oscillators, pressed_keys, synth_tracks>>

\* what the frame loop's handlers other than the effect toggles leave alone
outside_daw == <<adsr_vars, dsp_vars, midi_vars, wasm_vars, param_vars>>
\* what the envelope leaves alone
outside_adsr == <<daw_vars, fx_vars, dsp_vars, midi_vars, wasm_vars, param_vars>>
\* what the effects leave alone
outside_dsp == <<daw_vars, fx_vars, adsr_vars, midi_vars, wasm_vars, param_vars>>
\* what MIDI export and import of a note list leave alone
outside_midi == <<daw_vars, fx_vars, adsr_vars, dsp_vars, param_vars, wasm_vars>>

vars == <<daw_vars, fx_vars, adsr_vars, dsp_vars, midi_vars, wasm_vars, param_vars>>

\* ------------------------------------------------------------------ effects
\* f32 values are fixed-point thousandths, or one of the special values.
\* Products and quotients of finite values round toward zero.

Milli == 1000

Fin(v) == [k |-> "fin", v |-> v]
NaN == [k |-> "nan", v |-> 0]
PosInf == [k |-> "inf", v |-> 1]
NegInf == [k |-> "inf", v |-> -1]

Sign(x) == IF x > 0 THEN 1 ELSE IF x < 0 THEN -1 ELSE 0
TruncDiv(a, b) == Sign(a) * ((Sign(a) * a) \div b)

IsFin(x) == x.k = "fin"
IsNaN(x) == x.k = "nan"

\* f32 multiplication
FMul(a, b) ==
    IF IsNaN(a) \/ IsNaN(b) THEN NaN
    ELSE IF IsFin(a) /\ IsFin(b) THEN Fin(TruncDiv(a.v * b.v, Milli))
    ELSE IF Sign(a.v) * Sign(b.v) = 0 THEN NaN
    ELSE [k |-> "inf", v |-> Sign(a.v) * Sign(b.v)]

\* f32 addition
FAdd(a, b) ==
    IF IsNaN(a) \/ IsNaN(b) THEN NaN
    ELSE IF IsFin(a) /\ IsFin(b) THEN Fin(a.v + b.v)
    ELSE IF IsFin(a) THEN b
    ELSE IF IsFin(b) THEN a
    ELSE IF a.v = b.v THEN a ELSE NaN

FNeg(a) == [a EXCEPT !.v = -@]
FSub(a, b) == FAdd(a, FNeg(b))

\* x * num / den for positive integers num and den, without intermediate rounding
FScale(x, num, den) == IF IsFin(x) THEN Fin(TruncDiv(x.v * num, den)) ELSE x

\* a < b on f32: false when either is NaN
FLt(a, b) ==
    /\ ~IsNaN(a) /\ ~IsNaN(b)
    /\ IF IsFin(a) /\ IsFin(b) THEN a.v < b.v
       ELSE IF IsFin(a) THEN b.v > 0
       ELSE IF IsFin(b) THEN a.v < 0
       ELSE a.v < b.v

FGe(a, b) == ~IsNaN(a) /\ ~IsNaN(b) /\ ~FLt(a, b)

\* f32::clamp: NaN stays NaN
FClamp(x, lo, hi) ==
    IF IsNaN(x) THEN NaN
    ELSE IF FLt(x, lo) THEN lo
    ELSE IF FLt(hi, x) THEN hi
    ELSE x

\* f32::max: a NaN operand is ignored
FMax(x, y) ==
    IF IsNaN(x) THEN y
    ELSE IF IsNaN(y) THEN x
    ELSE IF FLt(x, y) THEN y ELSE x

\* lo <= x <= hi, which no NaN satisfies
InRange(x, lo, hi) == FGe(x, Fin(lo)) /\ FGe(Fin(hi), x)

\* width of usize
USizeBits == 7
USizeMax == 2 ^ USizeBits - 1
\* the longest Vec<f32> that can be allocated: isize::MAX bytes
AllocMax == 2 ^ (USizeBits - 3) - 1

\* `x as usize`: saturating, NaN becomes 0
AsUsize(x) ==
    IF IsNaN(x) THEN 0
    ELSE IF IsFin(x) THEN (IF x.v < 0 THEN 0 ELSE Min(x.v \div Milli, USizeMax))
    ELSE IF x.v > 0 THEN USizeMax ELSE 0

\* `n as f32`
AsF32(n) == Fin(n * Milli)

\* vec![0.0; n]
Zeros(n) == [i \in 1 .. n |-> Fin(0)]

\* buffer[i] with i counted from 0
At(buffer, i) == buffer[i + 1]

\* Vec::resize(n, 0.0)
Resize(buffer, n) ==
    [i \in 1 .. n |-> IF i <= Len(buffer) THEN buffer[i] ELSE Fin(0)]

\* sample rate the effects are constructed with
FxSampleRate == 1000
\* the 1024 samples every delay and flanger buffer has at least
MinBufferSize == 4

NoEffect == [kind |-> "none", fault |-> "none"]

\* ------------------------------------------------------------- DelayEffect

\* ((delay_time_ms / 1000.0) * sample_rate as f32) as usize
DelaySamples(delay_time_ms, sample_rate) ==
    AsUsize(FScale(delay_time_ms, sample_rate, 1000))

\* (delay_samples as f32 * 0.618) as usize
Tap1Samples(delay_samples) == AsUsize(FScale(AsF32(delay_samples), 618, 1000))
\* (delay_samples as f32 * 0.382) as usize
Tap2Samples(delay_samples) == AsUsize(FScale(AsF32(delay_samples), 382, 1000))

\* DelayEffect::new
DelayNew(delay_time_ms, feedback, mix, sample_rate) ==
    LET delay_samples == DelaySamples(delay_time_ms, sample_rate)
        buffer_size == Max(delay_samples, MinBufferSize)
    IN  [kind |-> "delay",
         fault |-> IF buffer_size > AllocMax THEN "capacity_overflow" ELSE "none",
         buffer |-> IF buffer_size > AllocMax THEN <<>> ELSE Zeros(buffer_size),
         write_index |-> 0,
         delay_samples |-> delay_samples,
         feedback |-> FClamp(feedback, Fin(0), Fin(950)),
         mix |-> FClamp(mix, Fin(0), Fin(1000)),
         sample_rate |-> sample_rate,
         tap1_samples |-> Tap1Samples(delay_samples),
         tap2_samples |-> Tap2Samples(delay_samples),
         damping_filter |-> Fin(0),
         damping_coefficient |-> Fin(300)]

\* DelayEffect::set_delay_time; the sum new_delay_samples + 1024 panics when
\* overflow is checked and wraps otherwise
DelaySetDelayTime(e, delay_time_ms, checked) ==
    LET new_delay_samples == DelaySamples(delay_time_ms, e.sample_rate)
        moved == [e EXCEPT !.delay_samples = new_delay_samples,
                           !.tap1_samples = Tap1Samples(new_delay_samples),
                           !.tap2_samples = Tap2Samples(new_delay_samples)]
        sum == new_delay_samples + MinBufferSize
        new_len == sum % (USizeMax + 1)
    IN  IF new_delay_samples = e.delay_samples THEN e
        ELSE IF new_delay_samples < Len(e.buffer) THEN moved
        ELSE IF sum > USizeMax /\ checked THEN [moved EXCEPT !.fault = "add_overflow"]
        ELSE IF new_len > AllocMax THEN [moved EXCEPT !.fault = "capacity_overflow"]
        ELSE [moved EXCEPT !.buffer = Resize(e.buffer, new_len)]

\* DelayEffect::set_feedback
DelaySetFeedback(e, feedback) == [e EXCEPT !.feedback = FClamp(feedback, Fin(0), Fin(990))]

\* DelayEffect::set_mix
DelaySetMix(e, mix) == [e EXCEPT !.mix = FClamp(mix, Fin(0), Fin(1000))]

\* DelayEffect::read_tap
read_tap(e, tap_samples) ==
    IF tap_samples = 0 \/ tap_samples >= Len(e.buffer) THEN Fin(0)
    ELSE LET read_index ==
                 IF e.write_index >= tap_samples
                 THEN e.write_index - tap_samples
                 ELSE Len(e.buffer) - (tap_samples - e.write_index)
         IN  At(e.buffer, read_index % Len(e.buffer))

\* the subtraction of read_tap's else branch goes below zero
read_tap_underflows(e, tap_samples) ==
    /\ ~(tap_samples = 0 \/ tap_samples >= Len(e.buffer))
    /\ e.write_index < tap_samples
    /\ Len(e.buffer) < tap_samples - e.write_index

\* main_tap * 0.6 + tap1 * 0.25 + tap2 * 0.15
DelayWet(e) ==
    FAdd(FAdd(FMul(read_tap(e, e.delay_samples), Fin(600)),
              FMul(read_tap(e, e.tap1_samples), Fin(250))),
         FMul(read_tap(e, e.tap2_samples), Fin(150)))

\* input * (1.0 - mix) + wet * mix
DryWet(input, wet, mix) ==
    FAdd(FMul(input, FSub(Fin(1000), mix)), FMul(wet, mix))

\* what a process_sample call leaves and returns
Step(e, output) == [effect |-> e, output |-> output]

\* DelayEffect::process_sample
DelayProcessSample(e, input) ==
    LET wet_signal == DelayWet(e)
        damping_filter ==
            FAdd(FMul(wet_signal, FSub(Fin(1000), e.damping_coefficient)),
                 FMul(e.damping_filter, e.damping_coefficient))
        filtered == [e EXCEPT !.damping_filter = damping_filter]
    IN  IF \E t \in {e.delay_samples, e.tap1_samples, e.tap2_samples} :
               read_tap_underflows(e, t)
        THEN Step([e EXCEPT !.fault = "subtract_overflow"], NaN)
        ELSE IF e.write_index >= Len(e.buffer)
        THEN Step([filtered EXCEPT !.fault = "index_out_of_bounds"], NaN)
        ELSE Step([filtered EXCEPT
                     !.buffer[e.write_index + 1] =
                         FAdd(input, FMul(damping_filter, e.feedback)),
                     !.write_index = (e.write_index + 1) % Len(e.buffer)],
                  DryWet(input, wet_signal, e.mix))

\* a reset that also puts the feedback and the mix back to zero
DelayReset_ClearsSettings(e) ==
    [e EXCEPT !.buffer = Zeros(Len(e.buffer)),
              !.write_index = 0,
              !.damping_filter = Fin(0),
              !.feedback = Fin(0),
              !.mix = Fin(0)]

\* DelayEffect::reset
DelayReset(e) ==
    [e EXCEPT !.buffer = Zeros(Len(e.buffer)),
              !.write_index = 0,
              !.damping_filter = Fin(0)]

\* ----------------------------------------------------------- FlangerEffect

\* sin(phase * 2 PI) at the eighth of a turn the phase has reached
SinTable == <<0, 707, 1000, 707, 0, -707, -1000, -707>>
SinTurns(turns) ==
    IF IsFin(turns) THEN Fin(SinTable[((turns.v % Milli) \div 125) + 1]) ELSE NaN

\* FlangerEffect::new
FlangerNew(lfo_rate, depth, feedback, mix, sample_rate) ==
    LET delay_base == Fin(2 * sample_rate)
        delay_range == Fin(8 * sample_rate)
        buffer_size == Max(AsUsize(FAdd(delay_base, delay_range)) + 1, MinBufferSize)
    IN  [kind |-> "flanger",
         fault |-> IF buffer_size > AllocMax THEN "capacity_overflow" ELSE "none",
         buffer |-> IF buffer_size > AllocMax THEN <<>> ELSE Zeros(buffer_size),
         write_index |-> 0,
         lfo_phase |-> Fin(0),
         lfo_rate |-> FMax(lfo_rate, Fin(10)),
         delay_base |-> delay_base,
         delay_range |-> delay_range,
         depth |-> FClamp(depth, Fin(0), Fin(1000)),
         feedback |-> FClamp(feedback, Fin(0), Fin(990)),
         mix |-> FClamp(mix, Fin(0), Fin(1000)),
         sample_rate |-> sample_rate]

\* FlangerEffect::lerp
lerp(a, b, t) == FAdd(a, FMul(t, FSub(b, a)))

\* the two positions get_delayed_sample reads
read_index1(e, delay_int) ==
    IF e.write_index >= delay_int
    THEN e.write_index - delay_int
    ELSE Len(e.buffer) - (delay_int - e.write_index)

read_index2(e, delay_int) ==
    IF read_index1(e, delay_int) = 0
    THEN Len(e.buffer) - 1
    ELSE read_index1(e, delay_int) - 1

\* FlangerEffect::get_delayed_sample
get_delayed_sample(e, delay_samples) ==
    LET delay_int == AsUsize(delay_samples)
        delay_frac == FSub(delay_samples, AsF32(delay_int))
    IN  lerp(At(e.buffer, read_index1(e, delay_int) % Len(e.buffer)),
             At(e.buffer, read_index2(e, delay_int) % Len(e.buffer)),
             delay_frac)

\* a subtraction of get_delayed_sample goes below zero
get_delayed_sample_underflows(e, delay_samples) ==
    /\ e.write_index < AsUsize(delay_samples)
    /\ Len(e.buffer) < AsUsize(delay_samples) - e.write_index

\* delay_base + (lfo_value * 0.5 + 0.5) * delay_range * depth
total_delay(e) ==
    LET lfo_value == SinTurns(e.lfo_phase)
        delay_offset ==
            FMul(FMul(FAdd(FMul(lfo_value, Fin(500)), Fin(500)), e.delay_range), e.depth)
    IN  FAdd(e.delay_base, delay_offset)

\* FlangerEffect::set_lfo_rate
FlangerSetLfoRate(e, rate) == [e EXCEPT !.lfo_rate = FMax(rate, Fin(10))]
\* FlangerEffect::set_depth
FlangerSetDepth(e, depth) == [e EXCEPT !.depth = FClamp(depth, Fin(0), Fin(1000))]
\* FlangerEffect::set_feedback
FlangerSetFeedback(e, feedback) ==
    [e EXCEPT !.feedback = FClamp(feedback, Fin(0), Fin(990))]
\* FlangerEffect::set_mix
FlangerSetMix(e, mix) == [e EXCEPT !.mix = FClamp(mix, Fin(0), Fin(1000))]

\* FlangerEffect::process_sample
FlangerProcessSample(e, input) ==
    LET delayed_sample == get_delayed_sample(e, total_delay(e))
        advanced == FAdd(e.lfo_phase, FScale(e.lfo_rate, 1, e.sample_rate))
        lfo_phase == IF FGe(advanced, Fin(1000)) THEN FSub(advanced, Fin(1000))
                     ELSE advanced
    IN  IF get_delayed_sample_underflows(e, total_delay(e))
        THEN Step([e EXCEPT !.fault = "subtract_overflow"], NaN)
        ELSE IF e.write_index >= Len(e.buffer)
        THEN Step([e EXCEPT !.fault = "index_out_of_bounds"], NaN)
        ELSE Step([e EXCEPT
                     !.buffer[e.write_index + 1] =
                         FAdd(input, FMul(delayed_sample, e.feedback)),
                     !.write_index = (e.write_index + 1) % Len(e.buffer),
                     !.lfo_phase = lfo_phase],
                  DryWet(input, delayed_sample, e.mix))

\* FlangerEffect::reset
FlangerReset(e) ==
    [e EXCEPT !.buffer = Zeros(Len(e.buffer)),
              !.write_index = 0,
              !.lfo_phase = Fin(0)]

\* ------------------------------------------------------------ ReverbEffect

\* sample rate the reverb is constructed with
ReverbSampleRate == 100

\* comb_delays_ms and allpass_delays_ms, in thousandths of a millisecond
comb_delays_ms == <<29700, 37100, 41100, 43700, 47000, 50300, 53500, 56300>>
allpass_delays_ms == <<5000, 1700, 12900, 9300, 15100, 8200>>

\* vec![0.0; delay_samples.max(1)]
DelayLine(delay_ms, sample_rate) ==
    Zeros(Max(DelaySamples(Fin(delay_ms), sample_rate), 1))

\* ReverbEffect::new; the comb feedback is computed from the argument as
\* given, the stored room_size is clamped
ReverbNew(room_size, damping, mix, sample_rate) ==
    LET base_feedback == FAdd(Fin(600), FMul(room_size, Fin(350)))
    IN  [kind |-> "reverb",
         fault |-> "none",
         comb_delays |-> [i \in 1 .. Len(comb_delays_ms) |->
                            DelayLine(comb_delays_ms[i], sample_rate)],
         comb_indices |-> [i \in 1 .. Len(comb_delays_ms) |-> 0],
         comb_feedback |-> [i \in 1 .. Len(comb_delays_ms) |->
                              FMul(base_feedback, Fin(1000 + ((i - 1) * 20 - 70)))],
         allpass_delays |-> [i \in 1 .. Len(allpass_delays_ms) |->
                               DelayLine(allpass_delays_ms[i], sample_rate)],
         allpass_indices |-> [i \in 1 .. Len(allpass_delays_ms) |-> 0],
         allpass_feedback |-> Fin(618),
         room_size |-> FClamp(room_size, Fin(0), Fin(1000)),
         damping |-> FClamp(damping, Fin(0), Fin(1000)),
         mix |-> FClamp(mix, Fin(0), Fin(1000)),
         damping_filter |-> Fin(0)]

\* an index of the reverb is outside its delay line
ReverbIndexOutside(e) ==
    \/ \E i \in 1 .. Len(e.comb_delays) : e.comb_indices[i] >= Len(e.comb_delays[i])
    \/ \E i \in 1 .. Len(e.allpass_delays) :
          e.allpass_indices[i] >= Len(e.allpass_delays[i])

\* ReverbEffect::process_comb_filters, from comb filter i on
RECURSIVE CombFrom(_, _, _, _)
CombFrom(e, input, i, output) ==
    IF i > Len(e.comb_delays) THEN Step(e, FScale(output, 1, Len(e.comb_delays)))
    ELSE LET index == e.comb_indices[i]
             delayed == At(e.comb_delays[i], index)
             damping_filter ==
                 FAdd(FMul(delayed, FSub(Fin(1000), e.damping)),
                      FMul(e.damping_filter, e.damping))
         IN  CombFrom([e EXCEPT
                         !.damping_filter = damping_filter,
                         !.comb_delays[i][index + 1] =
                             FAdd(input, FMul(damping_filter, e.comb_feedback[i])),
                         !.comb_indices[i] = (index + 1) % Len(e.comb_delays[i])],
                      input, i + 1, FAdd(output, delayed))

process_comb_filters(e, input) == CombFrom(e, input, 1, Fin(0))

\* ReverbEffect::process_allpass_filters, from all-pass filter i on
RECURSIVE AllpassFrom(_, _, _)
AllpassFrom(e, input, i) ==
    IF i > Len(e.allpass_delays) THEN Step(e, input)
    ELSE LET index == e.allpass_indices[i]
             delayed == At(e.allpass_delays[i], index)
             output == FAdd(FNeg(input), delayed)
         IN  AllpassFrom([e EXCEPT
                            !.allpass_delays[i][index + 1] =
                                FAdd(input, FMul(delayed, e.allpass_feedback)),
                            !.allpass_indices[i] = (index + 1) % Len(e.allpass_delays[i])],
                         output, i + 1)

process_allpass_filters(e, input) == AllpassFrom(e, input, 1)

\* ReverbEffect::set_room_size
ReverbSetRoomSize(e, room_size) ==
    LET clamped == FClamp(room_size, Fin(0), Fin(1000))
        base_feedback == FAdd(Fin(500), FMul(clamped, Fin(280)))
    IN  [e EXCEPT !.room_size = clamped,
                  !.comb_feedback = [i \in 1 .. Len(e.comb_feedback) |-> base_feedback]]
\* ReverbEffect::set_damping
ReverbSetDamping(e, damping) == [e EXCEPT !.damping = FClamp(damping, Fin(0), Fin(1000))]
\* ReverbEffect::set_mix
ReverbSetMix(e, mix) == [e EXCEPT !.mix = FClamp(mix, Fin(0), Fin(1000))]

\* ReverbEffect::process_sample
ReverbProcessSample(e, input) ==
    IF ReverbIndexOutside(e) THEN Step([e EXCEPT !.fault = "index_out_of_bounds"], NaN)
    ELSE LET comb == process_comb_filters(e, input)
             allpass == process_allpass_filters(comb.effect, comb.output)
         IN  Step(allpass.effect, DryWet(input, allpass.output, e.mix))

\* ReverbEffect::reset
ReverbReset(e) ==
    [e EXCEPT !.comb_delays = [i \in 1 .. Len(e.comb_delays) |->
                                 Zeros(Len(e.comb_delays[i]))],
              !.allpass_delays = [i \in 1 .. Len(e.allpass_delays) |->
                                    Zeros(Len(e.allpass_delays[i]))],
              !.comb_indices = [i \in 1 .. Len(e.comb_indices) |-> 0],
              !.allpass_indices = [i \in 1 .. Len(e.allpass_indices) |-> 0],
              !.damping_filter = Fin(0)]

\* ------------------------------------------- the effects' public functions

\* no process_sample call is made beyond this many
MaxFxCalls == 5
\* no setter call is made beyond this many
MaxFxSetterCalls == 1

\* arguments given for feedback, mix, depth, room_size and damping
FloatArgs == {NaN, PosInf, Fin(-500), Fin(0), Fin(1000)}
\* arguments given for the delay time, in milliseconds
DelayTimes == {NaN, PosInf, Fin(1500), Fin(2500), Fin(3500), Fin(4500)}
\* arguments given for the LFO rate, in Hz
LfoRates == {NaN, PosInf, Fin(250000)}
\* samples given to process_sample: silence and the unit impulse
Inputs == {Fin(0), Fin(1000)}

\* op: the function called last; output: what process_sample returned;
\* silent: only process_sample(0.0) was called since the constructor or reset;
\* was_reset: that stretch began with reset();
\* probe: process_sample calls since a unit impulse that followed silence and
\* was followed by silence, -1 when there is none;
\* feedback_set: set_feedback was called
NewLog == [op |-> "new", output |-> Fin(0), silent |-> TRUE, was_reset |-> FALSE,
           probe |-> -1, feedback_set |-> FALSE, calls |-> 0, setters |-> 0]

DspIdle == effect = NoEffect /\ overflow_checks = FALSE /\ fx_log = NewLog

FxLive == effect.kind # "none" /\ effect.fault = "none"

FxInit ==
    /\ \/ \E t \in DelayTimes, f \in FloatArgs, x \in FloatArgs :
             effect = DelayNew(t, f, x, FxSampleRate)
       \/ \E r \in LfoRates, d \in FloatArgs, f \in FloatArgs, x \in FloatArgs :
             effect = FlangerNew(r, d, f, x, FxSampleRate)
       \/ \E r \in FloatArgs, d \in FloatArgs, x \in FloatArgs :
             effect = ReverbNew(r, d, x, ReverbSampleRate)
    \* only DelayEffect has an addition that can overflow
    /\ overflow_checks \in (IF effect.kind = "delay" THEN BOOLEAN ELSE {FALSE})
    /\ fx_log = NewLog

\* AudioEffect::process_sample
process_sample(e, input) ==
    IF e.kind = "delay" THEN DelayProcessSample(e, input)
    ELSE IF e.kind = "flanger" THEN FlangerProcessSample(e, input)
    ELSE ReverbProcessSample(e, input)

\* AudioEffect::reset
reset(e) ==
    IF e.kind = "delay" THEN DelayReset(e)
    ELSE IF e.kind = "flanger" THEN FlangerReset(e)
    ELSE ReverbReset(e)

ProcessSample(input) ==
    /\ FxLive
    /\ fx_log.calls < MaxFxCalls
    /\ effect' = process_sample(effect, input).effect
    /\ fx_log' = [fx_log EXCEPT
                    !.op = "process_sample",
                    !.output = process_sample(effect, input).output,
                    !.silent = @ /\ input = Fin(0),
                    !.was_reset = @ /\ fx_log.silent /\ input = Fin(0),
                    !.probe = IF fx_log.silent /\ input = Fin(1000) THEN 0
                              ELSE IF @ >= 0 /\ input = Fin(0) THEN @ + 1
                              ELSE -1,
                    !.calls = @ + 1]
    /\ UNCHANGED <<overflow_checks, outside_dsp>>

Reset ==
    /\ FxLive
    /\ effect' = reset(effect)
    /\ fx_log' = [fx_log EXCEPT !.op = "reset", !.output = Fin(0), !.silent = TRUE,
                                !.was_reset = TRUE, !.probe = -1]
    /\ UNCHANGED <<overflow_checks, outside_dsp>>

\* a setter call that leaves the effect as e
Setter(kinds, op, e) ==
    /\ FxLive
    /\ effect.kind \in kinds
    /\ fx_log.setters < MaxFxSetterCalls
    /\ effect' = e
    /\ fx_log' = [fx_log EXCEPT !.op = op, !.output = Fin(0), !.silent = FALSE,
                                !.was_reset = FALSE, !.probe = -1,
                                !.feedback_set = @ \/ op = "set_feedback",
                                !.setters = @ + 1]
    /\ UNCHANGED <<overflow_checks, outside_dsp>>

SetDelayTime(t) ==
    Setter({"delay"}, "set_delay_time", DelaySetDelayTime(effect, t, overflow_checks))

SetFeedback(x) ==
    Setter({"delay", "flanger"}, "set_feedback",
           IF effect.kind = "delay" THEN DelaySetFeedback(effect, x)
           ELSE FlangerSetFeedback(effect, x))

SetMix(x) ==
    Setter({"delay", "flanger", "reverb"}, "set_mix",
           IF effect.kind = "delay" THEN DelaySetMix(effect, x)
           ELSE IF effect.kind = "flanger" THEN FlangerSetMix(effect, x)
           ELSE ReverbSetMix(effect, x))

SetLfoRate(r) == Setter({"flanger"}, "set_lfo_rate", FlangerSetLfoRate(effect, r))
SetDepth(x) == Setter({"flanger"}, "set_depth", FlangerSetDepth(effect, x))
SetRoomSize(x) == Setter({"reverb"}, "set_room_size", ReverbSetRoomSize(effect, x))
SetDamping(x) == Setter({"reverb"}, "set_damping", ReverbSetDamping(effect, x))

\* --------------------------------------------------------------------- MIDI
\* Timestamps and durations of the notes exported and imported are counted
\* in half ticks, 1/1920 s.

MidiTimeDen == 1920
\* Timing::Metrical(480), and ticks_per_quarter of seconds_to_ticks
TicksPerQuarter == 480
\* bpm / 60.0
QuartersPerSecond == 2

\* the Note enum in declaration order
PitchClasses == <<"C", "C#", "D", "D#", "E", "F", "F#", "G", "G#", "A", "A#", "B">>

\* the match of note_to_midi_number
BaseNote(note) == (CHOOSE i \in 1 .. Len(PitchClasses) : PitchClasses[i] = note) - 1

\* note_to_midi_number without the clamp
note_to_midi_number_Unclamped(note, octave) == (octave + 1) * 12 + BaseNote(note)

\* note_to_midi_number
note_to_midi_number(note, octave) ==
    Max(0, Min(127, (octave + 1) * 12 + BaseNote(note)))

\* midi_number_to_note
midi_number_to_note(midi_note) ==
    [note |-> PitchClasses[(midi_note % 12) + 1], octave |-> (midi_note \div 12) - 1]

\* Note::from_str
NoteResult(ok, note) == [ok |-> ok, note |-> note]
Note_from_str(s) ==
    IF \E i \in 1 .. Len(PitchClasses) : PitchClasses[i] = s
    THEN NoteResult(TRUE, s)
    ELSE NoteResult(FALSE, "Invalid note name")

\* seconds_to_ticks: (seconds * quarters_per_second * ticks_per_quarter) as u32
seconds_to_ticks(seconds) ==
    IF seconds < 0 THEN 0
    ELSE (seconds * QuartersPerSecond * TicksPerQuarter) \div MidiTimeDen

\* ticks_to_seconds_custom
ticks_to_seconds_custom(ticks, ticks_per_quarter) ==
    (ticks * MidiTimeDen) \div (QuartersPerSecond * ticks_per_quarter)

\* sort_by on the timestamp, which is stable
RECURSIVE InsertByTimestamp(_, _)
InsertByTimestamp(sorted, n) ==
    IF sorted = <<>> THEN <<n>>
    ELSE IF sorted[Len(sorted)].timestamp <= n.timestamp THEN Append(sorted, n)
    ELSE Append(InsertByTimestamp(SubSeq(sorted, 1, Len(sorted) - 1), n),
                sorted[Len(sorted)])

RECURSIVE SortByTimestamp(_)
SortByTimestamp(notes) ==
    IF notes = <<>> THEN <<>>
    ELSE InsertByTimestamp(SortByTimestamp(SubSeq(notes, 1, Len(notes) - 1)),
                           notes[Len(notes)])

\* big-endian integers
U16BE(n) == <<(n \div 256) % 256, n % 256>>
U32BE(n) == <<(n \div 16777216) % 256, (n \div 65536) % 256, (n \div 256) % 256, n % 256>>
ReadU16BE(buffer, pos) == At(buffer, pos) * 256 + At(buffer, pos + 1)
ReadU32BE(buffer, pos) ==
    At(buffer, pos) * 16777216 + At(buffer, pos + 1) * 65536
        + At(buffer, pos + 2) * 256 + At(buffer, pos + 3)

\* "MThd" and "MTrk"
MThd == <<77, 84, 104, 100>>
MTrk == <<77, 84, 114, 107>>

\* the delta time as Smf::write writes it: seven bits a byte, the most
\* significant first, the top bit set on every byte but the last
RECURSIVE VarLenHead(_)
VarLenHead(n) ==
    IF n = 0 THEN <<>> ELSE Append(VarLenHead(n \div 128), 128 + (n % 128))
WriteVarLen(n) == Append(VarLenHead(n \div 128), n % 128)

\* the events export_track_to_midi pushes for the sorted notes from note i on
RECURSIVE NoteEventsFrom(_, _, _)
NoteEventsFrom(sorted_notes, i, last_time_ticks) ==
    IF i > Len(sorted_notes) THEN <<>>
    ELSE LET recorded_note == sorted_notes[i]
             note_on_time == seconds_to_ticks(recorded_note.timestamp)
             note_off_time ==
                 seconds_to_ticks(recorded_note.timestamp + recorded_note.duration)
             midi_note == note_to_midi_number(recorded_note.note, recorded_note.octave)
             delta_on == Max(note_on_time - last_time_ticks, 0)
             delta_off == Max(note_off_time - note_on_time, 0)
         IN  WriteVarLen(delta_on) \o <<144, midi_note, 100>>
                 \o WriteVarLen(delta_off) \o <<128, midi_note, 0>>
                 \o NoteEventsFrom(sorted_notes, i + 1, note_off_time)

\* export_track_to_midi: the bytes of the file
export_track_to_midi(track_notes, track_name) ==
    LET events == <<0, 255, 3>> \o WriteVarLen(Len(track_name)) \o track_name
                      \o NoteEventsFrom(SortByTimestamp(track_notes), 1, 0)
                      \o <<0, 255, 47, 0>>
    IN  MThd \o U32BE(6) \o U16BE(0) \o U16BE(1) \o U16BE(TicksPerQuarter)
            \o MTrk \o U32BE(Len(events)) \o events

\* read_variable_length
read_variable_length(data) ==
    LET taken == Min(Len(data), 4)
        \* the bytes read: up to the first without the top bit, at most four
        stops == {i \in 1 .. taken : data[i] < 128}
        bytes_read == IF stops = {} THEN taken
                      ELSE CHOOSE i \in stops : \A j \in stops : i <= j
        Value[i \in 0 .. bytes_read] ==
            IF i = 0 THEN 0 ELSE Value[i - 1] * 128 + (data[i] % 128)
    IN  [ok |-> bytes_read # 0, value |-> Value[bytes_read], bytes_read |-> bytes_read]

\* what remains of data from position pos on
From(data, pos) == SubSeq(data, pos + 1, Len(data))

\* a note of parse_track_events
ParsedNote(key, start_time, end_time) ==
    [note |-> midi_number_to_note(key).note,
     octave |-> midi_number_to_note(key).octave,
     timestamp |-> start_time,
     duration |-> end_time - start_time]

\* active_notes.remove(&note) and the push that follows it
CloseNote(s, key, current_time) ==
    IF key \in DOMAIN s.active_notes
    THEN [s EXCEPT
            !.notes = Append(@, ParsedNote(key, s.active_notes[key], current_time)),
            !.active_notes = [k \in DOMAIN s.active_notes \ {key} |-> s.active_notes[k]]]
    ELSE s

\* active_notes.insert(note, current_time)
OpenNote(s, key, current_time) ==
    [s EXCEPT !.active_notes =
        [k \in DOMAIN s.active_notes \cup {key} |->
            IF k = key THEN current_time ELSE s.active_notes[k]]]

\* the match on the status byte in parse_track_events, entered with pos behind
\* the status byte; done is set by a break, err by `?`
ParseEvent(data, ticks_per_quarter, s2, status, pos) ==
    LET kind == status - (status % 16)
        current_time == ticks_to_seconds_custom(s2.current_ticks, ticks_per_quarter)
        stop == [s2 EXCEPT !.done = TRUE]
        skip(n) == [s2 EXCEPT !.pos = pos + n]
    IN
        IF kind = 128 THEN
            IF pos + 1 >= Len(data) THEN stop
            ELSE CloseNote(skip(2), At(data, pos), current_time)
        ELSE IF kind = 144 THEN
            IF pos + 1 >= Len(data) THEN stop
            ELSE IF At(data, pos + 1) = 0
                 THEN CloseNote(skip(2), At(data, pos), current_time)
                 ELSE OpenNote(skip(2), At(data, pos), current_time)
        ELSE IF kind \in {160, 176, 224} THEN
            IF pos + 1 >= Len(data) THEN stop ELSE skip(2)
        ELSE IF kind \in {192, 208} THEN
            IF pos >= Len(data) THEN stop ELSE skip(1)
        ELSE IF kind = 240 /\ status = 255 THEN
            IF pos + 1 >= Len(data) THEN stop
            ELSE LET length == read_variable_length(From(data, pos + 1))
                 IN  IF ~length.ok THEN [s2 EXCEPT !.err = TRUE]
                     ELSE skip(1 + length.bytes_read + length.value)
        ELSE skip(1)

\* the status byte of an event, or the running status when the byte at pos1 is
\* a data byte
ParseStatus(data, ticks_per_quarter, s1, pos1, byte) ==
    ParseEvent(data, ticks_per_quarter,
               [s1 EXCEPT !.pos = IF byte < 128 THEN pos1 ELSE pos1 + 1,
                          !.running_status = IF byte < 128 THEN @ ELSE byte],
               IF byte < 128 THEN s1.running_status ELSE byte,
               IF byte < 128 THEN pos1 ELSE pos1 + 1)

\* an iteration of the while loop from the delta time it has read
ParseDelta(data, ticks_per_quarter, s, delta) ==
    IF ~delta.ok THEN [s EXCEPT !.err = TRUE]
    ELSE IF s.pos + delta.bytes_read >= Len(data)
    THEN [s EXCEPT !.pos = @ + delta.bytes_read, !.current_ticks = @ + delta.value,
                   !.done = TRUE]
    ELSE ParseStatus(data, ticks_per_quarter,
                     [s EXCEPT !.pos = @ + delta.bytes_read,
                               !.current_ticks = @ + delta.value],
                     s.pos + delta.bytes_read, At(data, s.pos + delta.bytes_read))

\* one iteration of the while loop of parse_track_events
ParseStep(data, ticks_per_quarter, s) ==
    ParseDelta(data, ticks_per_quarter, s, read_variable_length(From(data, s.pos)))

\* the while loop of parse_track_events
RECURSIVE ParseLoop(_, _, _)
ParseLoop(data, ticks_per_quarter, s) ==
    IF s.done \/ s.err \/ s.pos >= Len(data) THEN s
    ELSE ParseLoop(data, ticks_per_quarter, ParseStep(data, ticks_per_quarter, s))

\* the notes still active at the end of the track, taken in key order (the
\* HashMap yields them in an order of its own)
RECURSIVE RemainingNotes(_, _)
RemainingNotes(active_notes, final_time) ==
    IF DOMAIN active_notes = {} THEN <<>>
    ELSE LET key == CHOOSE k \in DOMAIN active_notes :
                        \A j \in DOMAIN active_notes : k <= j
         IN  <<ParsedNote(key, active_notes[key], final_time)>>
                 \o RemainingNotes([k \in DOMAIN active_notes \ {key} |-> active_notes[k]],
                                   final_time)

ImportErr == [ok |-> FALSE, notes |-> <<>>]
ImportOk(notes) == [ok |-> TRUE, notes |-> notes]

\* parse_track_events
parse_track_events(data, ticks_per_quarter) ==
    LET s == ParseLoop(data, ticks_per_quarter,
                       [pos |-> 0, current_ticks |-> 0, active_notes |-> <<>>,
                        running_status |-> 0, notes |-> <<>>,
                        done |-> FALSE, err |-> FALSE])
    IN  IF s.err THEN ImportErr
        ELSE ImportOk(s.notes \o
                 RemainingNotes(s.active_notes,
                                ticks_to_seconds_custom(s.current_ticks, ticks_per_quarter)))

\* the track loop of import_midi_to_track, with tracks_left tracks to go
RECURSIVE ImportTracks(_, _, _, _, _)
ImportTracks(buffer, ticks_per_quarter, tracks_left, pos, collected) ==
    IF tracks_left = 0 \/ pos + 8 > Len(buffer) THEN ImportOk(collected)
    ELSE IF SubSeq(buffer, pos + 1, pos + 4) # MTrk THEN ImportErr
    ELSE LET track_length == ReadU32BE(buffer, pos + 4)
             track_end == pos + 8 + track_length
             track_notes == parse_track_events(SubSeq(buffer, pos + 9, track_end),
                                               ticks_per_quarter)
         IN  IF track_end > Len(buffer) THEN ImportOk(collected)
             ELSE IF ~track_notes.ok THEN ImportErr
             ELSE ImportTracks(buffer, ticks_per_quarter, tracks_left - 1, track_end,
                               collected \o track_notes.notes)

\* import_midi_to_track, given the bytes of the file
import_midi_to_track(buffer) ==
    IF Len(buffer) < 14 THEN ImportErr
    ELSE IF SubSeq(buffer, 1, 4) # MThd THEN ImportErr
    ELSE IF ReadU32BE(buffer, 4) # 6 THEN ImportErr
    ELSE LET imported == ImportTracks(buffer, ReadU16BE(buffer, 12),
                                      ReadU16BE(buffer, 10), 14, <<>>)
         IN  IF imported.ok THEN ImportOk(SortByTimestamp(imported.notes))
             ELSE ImportErr

\* ------------------------------------------------ MIDI export and import

\* octaves given to note_to_midi_number
MidiOctaves == -2 .. 10
\* strings given to Note::from_str
NoteTexts == {PitchClasses[i] : i \in 1 .. Len(PitchClasses)} \cup {"", "c", "Db", "H"}
\* the notes of the lists that are exported
MidiNotes ==
    { RecordedNote(n, DefaultOctave, t, d) : n \in {"C", "A#"}, t \in {0, 3, 6}, d \in {1, 4} }
MidiNoteLists ==
    {<<>>} \cup { <<a>> : a \in MidiNotes } \cup { <<a, b>> : a \in MidiNotes, b \in MidiNotes }
\* the track name written into the file, "T"
MidiTrackName == <<84>>
\* the ways a file is damaged between export and import
Damages == {"magic", "truncated", "varlen"}

NoPitch == [note |-> "C", octave |-> 0, ok |-> TRUE, number |-> 0,
            back |-> [note |-> "C", octave |-> 0]]
NoParsed == [text |-> "", result |-> NoteResult(FALSE, "")]

MidiIdleState ==
    [stage |-> "start", notes |-> <<>>, file |-> <<>>, damage |-> "none",
     result |-> ImportErr, pitch |-> NoPitch, parsed |-> NoParsed]

MidiIdle == midi = MidiIdleState

MidiInit == \E notes \in MidiNoteLists : midi = [MidiIdleState EXCEPT !.notes = notes]

\* the export button's call of export_track_to_midi
ExportTrack ==
    /\ midi.stage = "start"
    /\ midi' = [midi EXCEPT !.stage = "exported",
                            !.file = export_track_to_midi(midi.notes, MidiTrackName)]
    /\ UNCHANGED outside_midi

\* position of the first delta time after the track name event
FirstDelta == 14 + 8 + 3 + Len(WriteVarLen(Len(MidiTrackName))) + Len(MidiTrackName)

\* the file with its header magic overwritten, with its last byte missing (the
\* track chunk then declares more bytes than there are), or with four
\* continuation bytes put before a delta time (a variable-length quantity of
\* more than four bytes; the chunk length is adjusted)
Damaged(file, damage) ==
    IF damage = "magic" THEN [file EXCEPT ![1] = 88]
    ELSE IF damage = "truncated" THEN SubSeq(file, 1, Len(file) - 1)
    ELSE SubSeq(file, 1, 18) \o U32BE(ReadU32BE(file, 18) + 4)
             \o SubSeq(file, 23, FirstDelta) \o <<128, 128, 128, 128>>
             \o SubSeq(file, FirstDelta + 1, Len(file))

\* the file is changed on disk
Damage(damage) ==
    /\ midi.stage = "exported"
    /\ midi' = [midi EXCEPT !.stage = "damaged", !.damage = damage,
                            !.file = Damaged(midi.file, damage)]
    /\ UNCHANGED outside_midi

\* import_midi_to_track on the file
ImportTrack ==
    /\ midi.stage \in {"exported", "damaged"}
    /\ midi' = [midi EXCEPT !.stage = "imported",
                            !.result = import_midi_to_track(midi.file)]
    /\ UNCHANGED outside_midi

\* note_to_midi_number, which returns a u8 and no error, and midi_number_to_note
\* on what it returned
NoteToMidi(note, octave) ==
    /\ midi.stage = "start"
    /\ midi' = [midi EXCEPT
                  !.stage = "converted",
                  !.pitch = [note |-> note, octave |-> octave, ok |-> TRUE,
                             number |-> note_to_midi_number(note, octave),
                             back |-> midi_number_to_note(
                                          note_to_midi_number(note, octave))]]
    /\ UNCHANGED outside_midi

\* Note::from_str
NoteFromStr(text) ==
    /\ midi.stage = "start"
    /\ midi' = [midi EXCEPT !.stage = "parsed",
                            !.parsed = [text |-> text, result |-> Note_from_str(text)]]
    /\ UNCHANGED outside_midi

\* ------------------------------------------------------------- ADSREnvelope

\* (t * sample_rate) as usize, t in twentieths of a second
SamplesOf(t) == (t * SampleRate) \div TimeDen

\* ADSREnvelope::new(source, attack, decay, sustain, release)
ADSRNew(attack_t, decay_t, sustain, release_t) ==
    [ sample_count         |-> 0,
      attack_samples       |-> SamplesOf(attack_t),
      decay_samples        |-> SamplesOf(decay_t),
      sustain_level        |-> sustain,
      release_samples      |-> Max(SamplesOf(release_t), 1),
      release_start_sample |-> NoSample,
      is_released          |-> FALSE,
      max_sustain_samples  |-> ((release_t + 2) * SampleRate) \div (2 * TimeDen) ]

\* the phase calculate_envelope_amplitude takes for e
PhaseOf(e) ==
    IF e.release_start_sample.some THEN "release"
    ELSE IF e.sample_count <= e.attack_samples THEN "attack"
    ELSE IF e.sample_count <= e.attack_samples + e.decay_samples THEN "decay"
    ELSE "sustain"

\* calculate_envelope_amplitude with the decay progress taken from the note start
\* instead of from the end of the attack
calculate_envelope_amplitude_DecayFromStart(e) ==
    IF e.release_start_sample.some THEN
        LET release_progress == e.sample_count - e.release_start_sample.val IN
        IF release_progress >= e.release_samples THEN Rat(0, 1)
        ELSE Rat(e.sustain_level * (e.release_samples - release_progress),
                 SustainDen * e.release_samples)
    ELSE IF e.sample_count <= e.attack_samples THEN
        IF e.attack_samples = 0 THEN Rat(1, 1)
        ELSE Rat(Min(e.sample_count, e.attack_samples), e.attack_samples)
    ELSE IF e.sample_count <= e.attack_samples + e.decay_samples THEN
        IF e.decay_samples = 0 THEN Rat(e.sustain_level, SustainDen)
        ELSE Rat(SustainDen * e.decay_samples
                   - (SustainDen - e.sustain_level) * e.sample_count,
                 SustainDen * e.decay_samples)
    ELSE Rat(e.sustain_level, SustainDen)

\* ADSREnvelope::calculate_envelope_amplitude
calculate_envelope_amplitude(e) ==
    IF e.release_start_sample.some THEN
        LET release_progress == e.sample_count - e.release_start_sample.val IN
        IF release_progress >= e.release_samples THEN Rat(0, 1)
        ELSE IF e.release_samples = 0 THEN Rat(0, 1)
        ELSE Rat(e.sustain_level * (e.release_samples - release_progress),
                 SustainDen * e.release_samples)
    ELSE IF e.sample_count <= e.attack_samples THEN
        IF e.attack_samples = 0 THEN Rat(1, 1)
        ELSE Rat(Min(e.sample_count, e.attack_samples), e.attack_samples)
    ELSE IF e.sample_count <= e.attack_samples + e.decay_samples THEN
        IF e.decay_samples = 0 THEN Rat(e.sustain_level, SustainDen)
        ELSE Rat(SustainDen * e.decay_samples
                   - (SustainDen - e.sustain_level) * (e.sample_count - e.attack_samples),
                 SustainDen * e.decay_samples)
    ELSE Rat(e.sustain_level, SustainDen)

\* the auto-release test without its !is_released guard
AutoReleaseDue_Unguarded(e) ==
    e.sample_count > e.attack_samples + e.decay_samples + e.max_sustain_samples

\* the auto-release test of next(), on the incremented sample count
AutoReleaseDue(e) ==
    /\ e.sample_count > e.attack_samples + e.decay_samples + e.max_sustain_samples
    /\ ~e.is_released

\* release() without its !is_released guard
release_Unguarded(e) ==
    [e EXCEPT !.release_start_sample = SomeSample(e.sample_count),
              !.is_released = TRUE]

\* ADSREnvelope::release on the struct
release(e) ==
    IF ~e.is_released
    THEN [e EXCEPT !.release_start_sample = SomeSample(e.sample_count),
                   !.is_released = TRUE]
    ELSE e

\* next() with >= in place of > in its auto-release test
NextEnv_ReleaseAtCeiling(e) ==
    LET e1 == [e EXCEPT !.sample_count = e.sample_count + 1] IN
    IF /\ e1.sample_count >= e1.attack_samples + e1.decay_samples + e1.max_sustain_samples
       /\ ~e1.is_released
    THEN [e1 EXCEPT !.release_start_sample = SomeSample(e1.sample_count),
                    !.is_released = TRUE]
    ELSE e1

\* the struct after one next() call (the source never ends)
NextEnv(e) ==
    LET e1 == [e EXCEPT !.sample_count = e.sample_count + 1] IN
    IF AutoReleaseDue(e1)
    THEN [e1 EXCEPT !.release_start_sample = SomeSample(e1.sample_count),
                    !.is_released = TRUE]
    ELSE e1

\* whether that next() call returns None
NextIsNone(e) ==
    LET envelope_amplitude == calculate_envelope_amplitude(e)
        e2 == NextEnv(e)
    IN  \/ /\ e2.release_start_sample.some
           /\ e2.sample_count - e2.release_start_sample.val >= e2.release_samples
        \/ /\ RatLt(envelope_amplitude, Rat(1, SilenceDen))
           /\ e2.release_start_sample.some

\* no next() call is made beyond this many
MaxCalls ==
    SamplesOf(MaxAttackT) + SamplesOf(MaxDecayT) + 2 * SamplesOf(MaxReleaseT + 2) + 4

NoOut == [some |-> FALSE, amp |-> Rat(0, 1), phase |-> "none", progress |-> 0,
          none |-> FALSE]

ADSRInit ==
    /\ \E attack_t \in 0..MaxAttackT, decay_t \in 0..MaxDecayT,
          sustain \in 0..SustainDen, release_t \in 0..MaxReleaseT :
            env = ADSRNew(attack_t, decay_t, sustain, release_t)
    /\ calls = 0
    /\ finished = FALSE
    /\ released_by = "none"
    /\ amp_at_release = Rat(0, 1)
    /\ out = NoOut
    /\ prev_out = NoOut

\* ADSREnvelope::next
ADSRNext ==
    /\ ~finished
    /\ calls < MaxCalls
    /\ env' = NextEnv(env)
    /\ calls' = calls + 1
    /\ finished' = NextIsNone(env)
    /\ out' = [ some     |-> TRUE,
                amp      |-> calculate_envelope_amplitude(env),
                phase    |-> PhaseOf(env),
                progress |-> IF env.release_start_sample.some
                             THEN env.sample_count - env.release_start_sample.val
                             ELSE 0,
                none     |-> NextIsNone(env) ]
    /\ prev_out' = out
    /\ IF ~env.is_released /\ env'.is_released
       THEN /\ released_by' = "auto"
            /\ amp_at_release' =
                 calculate_envelope_amplitude([env' EXCEPT !.release_start_sample = NoSample])
       ELSE UNCHANGED <<released_by, amp_at_release>>
    /\ UNCHANGED outside_adsr

\* ADSREnvelope::release, called between two next() calls
ADSRRelease ==
    /\ ~finished
    /\ env' = release(env)
    /\ IF ~env.is_released
       THEN /\ released_by' = "explicit"
            /\ amp_at_release' = calculate_envelope_amplitude(env)
       ELSE UNCHANGED <<released_by, amp_at_release>>
    /\ UNCHANGED <<calls, finished, out, prev_out>>
    /\ UNCHANGED outside_adsr

\* the envelope of the frame-loop specifications, where no envelope is stepped
ADSRIdle ==
    /\ env = ADSRNew(0, 0, 0, 0)
    /\ calls = 0
    /\ finished = FALSE
    /\ released_by = "none"
    /\ amp_at_release = Rat(0, 1)
    /\ out = NoOut
    /\ prev_out = NoOut

\* ------------------------------------------------------------- State

\* Track::new
NewTrack == [recorded_notes |-> <<>>, playing |-> FALSE,
             octave |-> DefaultOctave, volume |-> Fin(800), pan |-> Fin(0),
             attack |-> DefaultAttack, decay |-> DefaultDecay,
             sustain |-> DefaultSustain, release |-> DefaultRelease]

\* State::playing_tracks, as the set of track ids (iterated in increasing order)
playing_tracks(ts) ==
    {i \in TrackIds : ts[i].playing /\ ts[i].recorded_notes # <<>>}

\* State::has_playing_tracks looking at the note lists only
has_playing_tracks_AnyContent(ts) ==
    \E i \in TrackIds : ts[i].recorded_notes # <<>>

\* State::has_playing_tracks
has_playing_tracks(ts) ==
    \E i \in TrackIds : ts[i].playing /\ ts[i].recorded_notes # <<>>

\* State::add_note_to_current_track
add_note_to_current_track(ts, cur, rn) ==
    [ts EXCEPT ![cur].recorded_notes = Append(@, rn)]

\* stop_all_track_playback that spares the current track
stop_all_track_playback_OthersOnly(ts) ==
    [i \in TrackIds |-> IF i = current_track_id THEN ts[i]
                        ELSE [ts[i] EXCEPT !.playing = FALSE]]

\* State::stop_all_track_playback
stop_all_track_playback(ts) == [i \in TrackIds |-> [ts[i] EXCEPT !.playing = FALSE]]

\* the RecordedNote built from current_note_start when a held note is finished:
\* duration = start_time.elapsed(), timestamp = recording_start.elapsed() - duration
HeldNote ==
    LET duration == now - current_note_start.start_time
        timestamp == IF recording_start_time.some
                     THEN (now - recording_start_time.val) - duration
                     ELSE 0
    IN  RecordedNote(current_note_start.note, current_note_start.octave,
                     timestamp, duration)

\* Sink::stop and Sink::append
SinkStop(s) == <<>>
SinkAppend(s, src) == Append(s, src)

\* MultiTrackMixer::play_note_on_track: the source is appended to the sink
play_note_on_track(s, track_id, n) == SinkAppend(s, Source(track_id, n))

\* handle_musical_note without its sink.stop()
handle_musical_note_NoStop(s, track_id, n) == play_note_on_track(s, track_id, n)

\* handle_musical_note, its effect on the sink: stop, then play on the current track
handle_musical_note(s, track_id, n) == play_note_on_track(SinkStop(s), track_id, n)

\* ------------------------------------------------------------- handle_playback

RECURSIVE SeqMax(_)
SeqMax(q) == IF q = <<>> THEN 0 ELSE Max(Head(q), SeqMax(Tail(q)))

\* notes.map(|n| n.timestamp + n.duration).fold(0.0, f32::max)
TrackLoopDuration(t) ==
    SeqMax([k \in 1 .. Len(t.recorded_notes) |->
              t.recorded_notes[k].timestamp + t.recorded_notes[k].duration])

RECURSIVE SetMax(_)
SetMax(S) == IF S = {} THEN 0
             ELSE LET x == CHOOSE y \in S : TRUE IN Max(x, SetMax(S \ {x}))

\* max_loop_duration folded over every track, playing or not
max_loop_duration_AllTracks(ts) == SetMax({TrackLoopDuration(ts[i]) : i \in TrackIds})

\* max_loop_duration over the playing tracks
max_loop_duration(ts) == SetMax({TrackLoopDuration(ts[i]) : i \in playing_tracks(ts)})

\* loop_time
LoopTime(ts, current_time) ==
    IF max_loop_duration(ts) > 0 THEN current_time % max_loop_duration(ts)
    ELSE current_time

\* LAST_LOOP_TIME after the loop-back test
LoopReference(last, loop_time) ==
    IF loop_time < last THEN LastLoopTimeReset ELSE last

\* should_trigger with <= in place of < on the reference
should_trigger_Inclusive(last, loop_time, note_start) ==
    \/ (last <= note_start /\ loop_time >= note_start)
    \/ (last < 0 /\ loop_time >= note_start
                 /\ loop_time < note_start + FrameTimeThreshold)

\* should_trigger
should_trigger(last, loop_time, note_start) ==
    \/ (last < note_start /\ loop_time >= note_start)
    \/ (last < 0 /\ loop_time >= note_start
                 /\ loop_time < note_start + FrameTimeThreshold)

\* the notes of track i that trigger, in list order, as [track, idx]
TrackHits(ts, i, last, loop_time) ==
    LET notes == ts[i].recorded_notes
        idxs == SelectSeq([k \in 1 .. Len(notes) |-> k],
                          LAMBDA k : should_trigger(last, loop_time, notes[k].timestamp))
    IN  [j \in 1 .. Len(idxs) |-> [track |-> i, idx |-> idxs[j]]]

\* the notes that trigger over all playing tracks, from track i on
RECURSIVE HitsFrom(_, _, _, _)
HitsFrom(ts, i, last, loop_time) ==
    IF i >= NumTracks THEN <<>>
    ELSE (IF i \in playing_tracks(ts) THEN TrackHits(ts, i, last, loop_time) ELSE <<>>)
         \o HitsFrom(ts, i + 1, last, loop_time)

\* the sink after play_note_on_track for every hit, in order
RECURSIVE PlayHits(_, _, _)
PlayHits(s, ts, hits) ==
    IF hits = <<>> THEN s
    ELSE PlayHits(play_note_on_track(s, Head(hits).track,
                      ts[Head(hits).track].recorded_notes[Head(hits).idx].note),
                  ts, Tail(hits))

NoTick == [ran |-> FALSE, loop_time |-> 0, last |-> 0, hits |-> <<>>]

\* the session's record of passes: valid while the session is followed from its
\* start with the same tracks and every tick gap shorter than the loop
NoPass == [valid |-> FALSE, no |-> 0, last_time |-> 0, hits |-> <<>>,
           done |-> FALSE, done_hits |-> <<>>]
NewPass == [NoPass EXCEPT !.valid = TRUE]

PassAfterTick(ps, current_time, duration, hits) ==
    LET ok == ps.valid /\ duration > 0 /\ current_time - ps.last_time < duration
        no == IF duration > 0 THEN current_time \div duration ELSE 0
    IN  IF ~ok THEN NoPass
        ELSE IF no = ps.no
        THEN [ps EXCEPT !.last_time = current_time, !.hits = @ \o hits]
        ELSE [ps EXCEPT !.last_time = current_time, !.no = no, !.hits = hits,
                        !.done = TRUE, !.done_hits = ps.hits]

\* ------------------------------------------------------------- the frame loop

\* InputHandler::handle_input runs the keyboard commands, the mouse command and
\* RecordingControlCommand in this order; the updaters follow
PhaseRank(p) ==
    CASE p = "keyboard" -> 0
      [] p = "mouse"    -> 1
      [] p = "playback" -> 2
      [] p = "release"  -> 3
      [] p = "update"   -> 4

Op(name, track, n, flag, count) ==
    [name |-> name, track |-> track, note |-> n, flag |-> flag, count |-> count]
NoOp == Op("none", 0, "C", FALSE, 0)

\* State::new with the tracks ts, an empty sink and the static LAST_LOOP_TIME
StateNew(ts) ==
    /\ tracks = ts
    /\ current_track_id = 0
    /\ recording_state = "Stopped"
    /\ recorded_notes = <<>>
    /\ recording_start_time = NoInstant
    /\ playback_start_time = NoInstant
    /\ current_note_start = NoNoteStart
    /\ pressed_key = NoKey
    /\ key_release_time = NoInstant
    /\ release_legacy = DefaultRelease
    /\ legacy_adsr = [attack |-> DefaultAttack, decay |-> DefaultDecay,
                      sustain |-> DefaultSustain]
    /\ recording_track = 0
    /\ release_runs = 0
    /\ sink = <<>>
    /\ LAST_LOOP_TIME = LastLoopTimeReset
    /\ now = 0
    /\ phase = "keyboard"
    /\ key_down = FALSE
    /\ last_op = NoOp
    /\ tick = NoTick
    /\ pass = NoPass
    /\ track_fx = [i \in TrackIds |-> [e \in EffectKinds |-> NewEffect]]
    /\ legacy_fx = [e \in EffectKinds |-> FALSE]

DawInit == StateNew([i \in TrackIds |-> NewTrack])

\* State::start_track_recording clearing every track's list
start_track_recording_ClearAll(cur) ==
    /\ recording_state' = "Recording"
    /\ recording_start_time' = SomeInstant(now)
    /\ tracks' = [i \in TrackIds |-> [tracks[i] EXCEPT !.recorded_notes = <<>>]]
    /\ current_note_start' = NoNoteStart

\* State::start_track_recording, cur being the current track
start_track_recording(cur) ==
    /\ recording_state' = "Recording"
    /\ recording_start_time' = SomeInstant(now)
    /\ tracks' = [tracks EXCEPT ![cur].recorded_notes = <<>>]
    /\ current_note_start' = NoNoteStart

\* State::stop_recording
stop_recording ==
    /\ recorded_notes' = IF current_note_start.some
                         THEN Append(recorded_notes, HeldNote)
                         ELSE recorded_notes
    /\ current_note_start' = NoNoteStart
    /\ recording_state' = "Stopped"
    /\ recording_start_time' = NoInstant

\* stop_playback that leaves the playback clock as it is
stop_playback_KeepsClock ==
    /\ recording_state' = "Stopped"
    /\ UNCHANGED playback_start_time

\* State::stop_playback
stop_playback ==
    /\ recording_state' = "Stopped"
    /\ playback_start_time' = NoInstant

\* what KeyboardInputCommand::execute and the note click of handle_keyboard_mouse /
\* handle_tangent_mouse do alike: play the note, then record it if recording
NoteInput(n) ==
    /\ sink' = handle_musical_note(sink, current_track_id, n)
    /\ key_release_time' = NoInstant
    /\ pressed_key' = SomeKey(n)
    /\ release_runs' = 0
    /\ IF recording_state = "Recording"
       THEN /\ tracks' = IF current_note_start.some
                         THEN add_note_to_current_track(tracks, current_track_id, HeldNote)
                         ELSE tracks
            /\ current_note_start' =
                 SomeNoteStart(now, n, tracks[current_track_id].octave)
       ELSE UNCHANGED <<tracks, current_note_start>>
    /\ UNCHANGED <<current_track_id, recording_state, recorded_notes,
                   recording_start_time, playback_start_time, release_legacy,
                   LAST_LOOP_TIME, now, tick, pass>>

\* KeyboardInputCommand::execute for the key of note n
KeyboardNote(n) ==
    /\ phase = "keyboard"
    /\ NoteInput(n)
    /\ key_down' = TRUE
    /\ phase' = "mouse"
    /\ last_op' = Op("KeyboardNote", current_track_id, n, FALSE, 0)
    /\ UNCHANGED <<fx_vars, adsr_vars, dsp_vars, midi_vars, wasm_vars, legacy_adsr, recording_track>>

\* MouseInputCommand::execute, a click on the piano key of note n
MouseNote(n) ==
    /\ PhaseRank(phase) <= PhaseRank("mouse")
    /\ NoteInput(n)
    /\ phase' = "playback"
    /\ last_op' = Op("MouseNote", current_track_id, n, FALSE, 0)
    /\ UNCHANGED <<key_down>>
    /\ UNCHANGED <<fx_vars, adsr_vars, dsp_vars, midi_vars, wasm_vars, legacy_adsr, recording_track>>

\* MouseInputCommand::execute, the release fader set to v (handle_adsr_fader_mouse)
FaderRelease(v) ==
    /\ PhaseRank(phase) <= PhaseRank("mouse")
    /\ tracks' = [tracks EXCEPT ![current_track_id].release = v]
    /\ release_legacy' = v
    /\ phase' = "playback"
    /\ last_op' = Op("FaderRelease", current_track_id, "C", FALSE, v)
    /\ UNCHANGED <<current_track_id, recording_state, recorded_notes,
                   recording_start_time, playback_start_time, current_note_start,
                   pressed_key, key_release_time, sink, LAST_LOOP_TIME, now,
                   key_down, tick, pass>>
    /\ UNCHANGED <<fx_vars, outside_daw>>

\* handle_track_selection_mouse, the record button of track i
RecordClick(i) ==
    /\ PhaseRank(phase) <= PhaseRank("mouse")
    /\ current_track_id' = i
    /\ CASE recording_state = "Stopped" ->
              /\ start_track_recording(i)
              /\ last_op' = Op("start_track_recording", i, "C", FALSE,
                               Len(tracks[i].recorded_notes))
              /\ UNCHANGED <<recorded_notes, playback_start_time>>
         [] recording_state = "Recording" ->
              /\ stop_recording
              /\ last_op' = Op("stop_recording", current_track_id,
                               current_note_start.note, current_note_start.some,
                               Len(tracks[current_track_id].recorded_notes))
              /\ UNCHANGED <<tracks, playback_start_time>>
         [] recording_state = "Playing" ->
              /\ playback_start_time' = NoInstant
              /\ start_track_recording(i)
              /\ last_op' = Op("start_track_recording", i, "C", TRUE,
                               Len(tracks[i].recorded_notes))
              /\ UNCHANGED <<recorded_notes>>
    /\ recording_track' = IF recording_state = "Recording" THEN recording_track ELSE i
    /\ phase' = "playback"
    /\ pass' = NoPass
    /\ UNCHANGED <<pressed_key, key_release_time, release_legacy, sink,
                   LAST_LOOP_TIME, now, key_down, tick>>
    /\ UNCHANGED <<fx_vars, adsr_vars, dsp_vars, midi_vars, wasm_vars, legacy_adsr, release_runs>>

\* the recording state the play button leaves, the track's flag being toggled
PlayButtonState(ts) ==
    IF has_playing_tracks(ts) THEN "Playing" ELSE "Stopped"

\* the play button restarting the playback clock at every click that leaves
\* a track playing
PlayClick_RestartsClock(i) ==
    /\ PhaseRank(phase) <= PhaseRank("mouse")
    /\ IF tracks[i].recorded_notes = <<>>
       THEN /\ last_op' = Op("PlayClickEmpty", i, "C", FALSE, 0)
            /\ UNCHANGED <<tracks, recording_state, playback_start_time, pass>>
       ELSE LET toggled == [tracks EXCEPT ![i].playing = ~@]
            IN  /\ tracks' = toggled
                /\ recording_state' = PlayButtonState(toggled)
                /\ IF PlayButtonState(toggled) = "Playing"
                   THEN IF TRUE
                        THEN /\ playback_start_time' = SomeInstant(now)
                             /\ pass' = NewPass
                             /\ last_op' = Op("PlayClick", i, "C", TRUE, 0)
                        ELSE /\ UNCHANGED playback_start_time
                             /\ pass' = NoPass
                             /\ last_op' = Op("PlayClick", i, "C", FALSE, 0)
                   ELSE /\ playback_start_time' = NoInstant
                        /\ pass' = NoPass
                        /\ last_op' = Op("PlayClick", i, "C", FALSE, 0)
    /\ phase' = "playback"
    /\ UNCHANGED <<current_track_id, recorded_notes, recording_start_time,
                   current_note_start, pressed_key, key_release_time,
                   release_legacy, sink, LAST_LOOP_TIME, now, key_down, tick>>
    /\ UNCHANGED <<fx_vars, outside_daw>>

\* handle_track_selection_mouse, the play button of track i
PlayClick(i) ==
    /\ PhaseRank(phase) <= PhaseRank("mouse")
    /\ IF tracks[i].recorded_notes = <<>>
       THEN /\ last_op' = Op("PlayClickEmpty", i, "C", FALSE, 0)
            /\ UNCHANGED <<tracks, recording_state, playback_start_time, pass>>
       ELSE LET toggled == [tracks EXCEPT ![i].playing = ~@]
            IN  /\ tracks' = toggled
                /\ recording_state' = PlayButtonState(toggled)
                /\ IF PlayButtonState(toggled) = "Playing"
                   THEN IF recording_state # "Playing"
                        THEN /\ playback_start_time' = SomeInstant(now)
                             /\ pass' = NewPass
                             /\ last_op' = Op("PlayClick", i, "C", TRUE, 0)
                        ELSE /\ UNCHANGED playback_start_time
                             /\ pass' = NoPass
                             /\ last_op' = Op("PlayClick", i, "C", FALSE, 0)
                   ELSE /\ playback_start_time' = NoInstant
                        /\ pass' = NoPass
                        /\ last_op' = Op("PlayClick", i, "C", FALSE, 0)
    /\ phase' = "playback"
    /\ UNCHANGED <<current_track_id, recorded_notes, recording_start_time,
                   current_note_start, pressed_key, key_release_time,
                   release_legacy, sink, LAST_LOOP_TIME, now, key_down, tick>>
    /\ UNCHANGED <<fx_vars, outside_daw>>

\* handle_track_selection_mouse, the stop button of a track
StopClick ==
    /\ PhaseRank(phase) <= PhaseRank("mouse")
    /\ sink' = SinkStop(sink)
    /\ stop_recording
    /\ stop_playback
    /\ tracks' = stop_all_track_playback(tracks)
    /\ pressed_key' = NoKey
    /\ key_release_time' = NoInstant
    /\ phase' = "playback"
    /\ pass' = NoPass
    /\ last_op' = Op(IF recording_state = "Recording" THEN "stop_recording"
                     ELSE "StopClick",
                     current_track_id, current_note_start.note,
                     current_note_start.some,
                     Len(tracks[current_track_id].recorded_notes))
    /\ UNCHANGED <<current_track_id, release_legacy, LAST_LOOP_TIME, now,
                   key_down, tick>>
    /\ UNCHANGED <<fx_vars, outside_daw>>

\* handle_track_selection_mouse, the name area of track i
NameClick(i) ==
    /\ PhaseRank(phase) <= PhaseRank("mouse")
    /\ i # current_track_id
    /\ current_track_id' = i
    /\ release_legacy' = tracks[i].release
    /\ legacy_adsr' = [attack |-> tracks[i].attack, decay |-> tracks[i].decay,
                       sustain |-> tracks[i].sustain]
    /\ legacy_fx' = [e \in EffectKinds |-> track_fx[i][e].enabled]
    /\ phase' = "playback"
    /\ last_op' = Op("NameClick", i, "C", FALSE, 0)
    /\ UNCHANGED <<tracks, recording_state, recorded_notes, recording_start_time,
                   playback_start_time, current_note_start, pressed_key,
                   key_release_time, sink, LAST_LOOP_TIME, now, key_down, tick,
                   pass>>
    /\ UNCHANGED <<track_fx, adsr_vars, dsp_vars, midi_vars, wasm_vars, recording_track, release_runs>>

\* note lists import_midi_to_track returns in the model: sorted by timestamp
ImportLists ==
    { <<>>,
      <<RecordedNote("C", DefaultOctave, 0, 1)>>,
      <<RecordedNote("C", DefaultOctave, 0, 1), RecordedNote("E", DefaultOctave, 2, 1)>> }

\* what import_midi_to_track returns for the file the import button names: an
\* error (the file is missing or malformed) or the notes of the file
ImportFiles == {ImportErr} \cup {ImportOk(notes) : notes \in ImportLists}

\* import_midi_to_synthesizer_track that empties the track before it reads the file
import_midi_to_synthesizer_track_ClearsFirst(ts, track_id, file) ==
    IF track_id >= NumTracks THEN [ok |-> FALSE, tracks |-> ts]
    ELSE [ok |-> file.ok,
          tracks |-> [ts EXCEPT ![track_id].recorded_notes = file.notes]]

\* import_midi_to_synthesizer_track, given what import_midi_to_track returns
import_midi_to_synthesizer_track(ts, track_id, file) ==
    IF track_id >= NumTracks THEN [ok |-> FALSE, tracks |-> ts]
    ELSE IF ~file.ok THEN [ok |-> FALSE, tracks |-> ts]
    ELSE [ok |-> TRUE,
          tracks |-> [ts EXCEPT ![track_id].recorded_notes = file.notes]]

\* handle_midi_buttons_mouse, the import button
ImportClick(file) ==
    LET imported == import_midi_to_synthesizer_track(tracks, current_track_id, file)
    IN  /\ PhaseRank(phase) <= PhaseRank("mouse")
        /\ tracks' = imported.tracks
        /\ phase' = "playback"
        /\ pass' = IF imported.ok THEN NoPass ELSE pass
        /\ last_op' = Op("ImportClick", current_track_id, "C", imported.ok,
                         Len(imported.tracks[current_track_id].recorded_notes))
        /\ UNCHANGED <<current_track_id, recording_state, recorded_notes,
                       recording_start_time, playback_start_time, current_note_start,
                       pressed_key, key_release_time, release_legacy, sink,
                       LAST_LOOP_TIME, now, key_down, tick>>
        /\ UNCHANGED <<fx_vars, outside_daw>>

\* handle_playback, called first by RecordingControlCommand::execute
handle_playback ==
    /\ PhaseRank(phase) <= PhaseRank("playback")
    /\ IF /\ recording_state = "Playing"
          /\ playback_start_time.some
          /\ playing_tracks(tracks) # {}
       THEN LET current_time == now - playback_start_time.val
                loop_time == LoopTime(tracks, current_time)
                ref == LoopReference(LAST_LOOP_TIME, loop_time)
                hits == HitsFrom(tracks, 0, ref, loop_time)
                final == hits[Len(hits)]
            IN  /\ sink' = PlayHits(sink, tracks, hits)
                /\ pressed_key' =
                     IF hits # <<>>
                     THEN SomeKey(tracks[final.track].recorded_notes[final.idx].note)
                     ELSE pressed_key
                /\ release_runs' = IF hits # <<>> THEN 0 ELSE release_runs
                /\ LAST_LOOP_TIME' = loop_time
                /\ tick' = [ran |-> TRUE, loop_time |-> loop_time,
                            last |-> LAST_LOOP_TIME, hits |-> hits]
                /\ pass' = PassAfterTick(pass, current_time,
                                         max_loop_duration(tracks), hits)
       ELSE /\ tick' = NoTick
            /\ UNCHANGED <<sink, pressed_key, LAST_LOOP_TIME, pass, release_runs>>
    /\ phase' = "release"
    /\ last_op' = Op("handle_playback", current_track_id, "C", FALSE, 0)
    /\ UNCHANGED <<tracks, current_track_id, recording_state, recorded_notes,
                   recording_start_time, playback_start_time, current_note_start,
                   key_release_time, release_legacy, now, key_down>>
    /\ UNCHANGED <<fx_vars, adsr_vars, dsp_vars, midi_vars, wasm_vars, legacy_adsr, recording_track>>

\* RecordingControlCommand::execute after handle_playback: key release timing
KeyReleaseControl ==
    /\ phase = "release"
    /\ LET key_pressed == pressed_key.some /\ key_down
           releasing == ~key_pressed /\ pressed_key.some /\ ~key_release_time.some
           release_time == IF releasing THEN SomeInstant(now) ELSE key_release_time
       IN  /\ sink' = IF releasing /\ release_legacy <= InstantReleaseMax
                      THEN SinkStop(sink) ELSE sink
           /\ key_release_time' =
                IF /\ release_time.some
                   /\ (now - release_time.val) * ParamMax > release_legacy * ParamScale
                   /\ now - release_time.val > VisualClearMin
                THEN NoInstant ELSE release_time
           /\ release_runs' = IF releasing THEN Min(release_runs + 1, 2) ELSE release_runs
           /\ last_op' = Op("KeyReleaseControl", current_track_id, "C", releasing, 0)
    /\ phase' = "update"
    /\ UNCHANGED <<tracks, current_track_id, recording_state, recorded_notes,
                   recording_start_time, playback_start_time, current_note_start,
                   pressed_key, release_legacy, LAST_LOOP_TIME, now, key_down,
                   tick, pass>>
    /\ UNCHANGED <<fx_vars, adsr_vars, dsp_vars, midi_vars, wasm_vars, legacy_adsr, recording_track>>

\* the updaters at the end of a frame (AudioStateUpdater, RecordingStateUpdater),
\* after which dt passes until the next frame
EndFrameTo(horizon, dt) ==
    /\ phase = "update"
    /\ now + dt <= horizon
    /\ key_release_time' =
         IF key_release_time.some /\ now - key_release_time.val > AudioClearAfter
         THEN NoInstant ELSE key_release_time
    /\ IF recording_state = "Stopped" /\ current_note_start.some
       THEN /\ recorded_notes' = Append(recorded_notes, HeldNote)
            /\ current_note_start' = NoNoteStart
       ELSE UNCHANGED <<recorded_notes, current_note_start>>
    /\ now' = now + dt
    /\ phase' = "keyboard"
    /\ key_down' = FALSE
    /\ last_op' = NoOp
    /\ tick' = NoTick
    /\ UNCHANGED <<tracks, current_track_id, recording_state, recording_start_time,
                   playback_start_time, pressed_key, release_legacy, sink,
                   LAST_LOOP_TIME, pass>>
    /\ UNCHANGED <<fx_vars, outside_daw>>

EndFrame(dt) == EndFrameTo(MaxTime, dt)

\* ------------------------------------------------- the browser synthesizer

\* lib.rs: WAVEFORM_SINE, WAVEFORM_SQUARE, WAVEFORM_TRIANGLE, WAVEFORM_SAWTOOTH
WAVEFORM_SINE == 0
WAVEFORM_SQUARE == 1
WAVEFORM_TRIANGLE == 2
WAVEFORM_SAWTOOTH == 3

\* WasmSynthesizer::new: vec![SynthTrack::new(); 4]
WasmTrackIds == 0 .. 3
\* WasmSynthesizer::current_track: set to 0 by new and assigned nowhere else
current_track == 0
\* adjust_octave clamps the octave to 1..8
WasmMinOctave == 1
WasmMaxOctave == 8

\* the key codes the browser sends in the model: two note keys, a key that
\* maps to nothing, and the interface controls
WasmKeys == {"KeyA", "KeyD", "KeyQ", "Digit1", "Digit2", "Digit3", "Digit4",
             "ArrowUp", "ArrowDown"}

\* Option<&'static str>
NoNoteName == [some |-> FALSE, name |-> "C"]
SomeNoteName(n) == [some |-> TRUE, name |-> n]

\* WasmSynthesizer::map_key_to_note
map_key_to_note(key) ==
    CASE key = "KeyA" -> SomeNoteName("C")
      [] key = "KeyW" -> SomeNoteName("C#")
      [] key = "KeyS" -> SomeNoteName("D")
      [] key = "KeyE" -> SomeNoteName("D#")
      [] key = "KeyD" -> SomeNoteName("E")
      [] key = "KeyF" -> SomeNoteName("F")
      [] key = "KeyT" -> SomeNoteName("F#")
      [] key = "KeyG" -> SomeNoteName("G")
      [] key = "KeyY" -> SomeNoteName("G#")
      [] key = "KeyH" -> SomeNoteName("A")
      [] key = "KeyU" -> SomeNoteName("A#")
      [] key = "KeyJ" -> SomeNoteName("B")
      [] OTHER -> NoNoteName

\* the entry active_oscillators holds for a track: none, or an oscillator
\* started at the frequency of a note and octave with a waveform
NoOscillator == [some |-> FALSE, note |-> "C", octave |-> 4, waveform |-> WAVEFORM_SQUARE]
Oscillator(n, o, w) == [some |-> TRUE, note |-> n, octave |-> o, waveform |-> w]

\* SynthTrack::new
SynthTrackNew == [waveform |-> WAVEFORM_SQUARE, octave |-> 4]

\* WasmAudioEngine::play_note: without an audio context nothing happens;
\* otherwise the track's oscillator, if any, is stopped and replaced
WasmAudioEngine_play_note(oscs, ready, n, o, w, track_id) ==
    IF ready THEN [oscs EXCEPT ![track_id] = Oscillator(n, o, w)] ELSE oscs

\* WasmAudioEngine::stop_note: the track's oscillator is removed and stopped
WasmAudioEngine_stop_note(oscs, track_id) ==
    [oscs EXCEPT ![track_id] = NoOscillator]

\* WasmSynthesizer::new with WasmAudioEngine::new
WasmIdle ==
    /\ audio_context = FALSE
    /\ active_oscillators = [t \in WasmTrackIds |-> NoOscillator]
    /\ pressed_keys = {}
    /\ synth_tracks = [t \in WasmTrackIds |-> SynthTrackNew]

\* WasmSynthesizer::init_audio
init_audio ==
    /\ ~audio_context
    /\ audio_context' = TRUE
    /\ UNCHANGED <<active_oscillators, pressed_keys, synth_tracks>>
    /\ UNCHANGED <<daw_vars, fx_vars, adsr_vars, dsp_vars, midi_vars, param_vars>>

\* WasmSynthesizer::set_waveform and adjust_octave, as handle_key_down
\* dispatches them
InterfaceControl(ts, key) ==
    CASE key = "Digit1" -> [ts EXCEPT ![current_track].waveform = WAVEFORM_SINE]
      [] key = "Digit2" -> [ts EXCEPT ![current_track].waveform = WAVEFORM_SQUARE]
      [] key = "Digit3" -> [ts EXCEPT ![current_track].waveform = WAVEFORM_TRIANGLE]
      [] key = "Digit4" -> [ts EXCEPT ![current_track].waveform = WAVEFORM_SAWTOOTH]
      [] key = "ArrowUp" ->
            [ts EXCEPT ![current_track].octave =
                Max(WasmMinOctave, Min(WasmMaxOctave, ts[current_track].octave + 1))]
      [] key = "ArrowDown" ->
            [ts EXCEPT ![current_track].octave =
                Max(WasmMinOctave, Min(WasmMaxOctave, ts[current_track].octave - 1))]
      [] OTHER -> ts

\* WasmSynthesizer::handle_key_down with WasmSynthesizer::play_note
handle_key_down(key) ==
    LET note == map_key_to_note(key)
        track == synth_tracks[current_track]
    IN  /\ IF note.some /\ note.name \notin pressed_keys
           THEN /\ active_oscillators' =
                      WasmAudioEngine_play_note(active_oscillators, audio_context,
                          note.name, track.octave, track.waveform, current_track)
                /\ pressed_keys' = pressed_keys \cup {note.name}
           ELSE UNCHANGED <<active_oscillators, pressed_keys>>
        /\ synth_tracks' = InterfaceControl(synth_tracks, key)
        /\ UNCHANGED audio_context
        /\ UNCHANGED <<daw_vars, fx_vars, adsr_vars, dsp_vars, midi_vars, param_vars>>

\* WasmSynthesizer::handle_key_up with WasmSynthesizer::stop_note
handle_key_up(key) ==
    LET note == map_key_to_note(key)
    IN  /\ IF note.some
           THEN /\ active_oscillators' =
                      WasmAudioEngine_stop_note(active_oscillators, current_track)
                /\ pressed_keys' = pressed_keys \ {note.name}
           ELSE UNCHANGED <<active_oscillators, pressed_keys>>
        /\ UNCHANGED <<audio_context, synth_tracks>>
        /\ UNCHANGED <<daw_vars, fx_vars, adsr_vars, dsp_vars, midi_vars, param_vars>>

KeyDown == \E key \in WasmKeys : handle_key_down(key)

KeyUp == \E key \in WasmKeys : handle_key_up(key)

WasmNext == init_audio \/ KeyDown \/ KeyUp

SpecWasmInit == WasmIdle /\ DawInit /\ ADSRIdle /\ DspIdle /\ MidiIdle

SpecWasm == SpecWasmInit /\ [][WasmNext]_vars

Init == DawInit /\ ADSRIdle /\ DspIdle /\ MidiIdle /\ WasmIdle

Next ==
    \/ \E n \in NoteNames : KeyboardNote(n)
    \/ \E n \in NoteNames : MouseNote(n)
    \/ \E v \in ReleaseSettings : FaderRelease(v)
    \/ \E i \in TrackIds : RecordClick(i)
    \/ \E i \in TrackIds : PlayClick(i)
    \/ StopClick
    \/ \E i \in TrackIds : NameClick(i)
    \/ \E file \in ImportFiles : ImportClick(file)
    \/ handle_playback
    \/ KeyReleaseControl
    \/ \E dt \in 1 .. MaxGap : EndFrame(dt)

Spec == Init /\ [][Next]_vars

\* loops as recorded or imported before playback starts
SchedLists ==
    { <<RecordedNote("C", DefaultOctave, 0, 1), RecordedNote("E", DefaultOctave, 2, 1)>>,
      <<RecordedNote("E", DefaultOctave, 1, 1)>>,
      <<RecordedNote("C", DefaultOctave, 0, 2), RecordedNote("E", DefaultOctave, 0, 2),
        RecordedNote("C", DefaultOctave, 3, 1)>>,
      <<RecordedNote("C", DefaultOctave, 0, 0)>> }

\* the program with the first two tracks loaded, nothing playing yet
SchedInit ==
    /\ \E a \in SchedLists, b \in SchedLists \cup {<<>>} :
          StateNew([i \in TrackIds |->
                      [NewTrack EXCEPT !.recorded_notes =
                          IF i = 0 THEN a ELSE IF i = 1 THEN b ELSE <<>>]])
    /\ ADSRIdle
    /\ DspIdle
    /\ MidiIdle /\ WasmIdle

SchedEndFrame(dt) == EndFrameTo(SchedMaxTime, dt)

SchedNext ==
    \/ \E i \in TrackIds : PlayClick(i)
    \/ StopClick
    \/ handle_playback
    \/ KeyReleaseControl
    \/ \E dt \in 1 .. MaxGap : SchedEndFrame(dt)

SpecSched == SchedInit /\ [][SchedNext]_vars

\* notes played on the keyboard and left to ring, over a horizon long enough
\* for key_release_time to be set and cleared again
ReleaseEndFrame(dt) == EndFrameTo(ReleaseMaxTime, dt)

ReleaseNext ==
    \/ \E n \in NoteNames : KeyboardNote(n)
    \/ \E v \in ReleaseSettings : FaderRelease(v)
    \/ handle_playback
    \/ KeyReleaseControl
    \/ \E dt \in 1 .. MaxGap : ReleaseEndFrame(dt)

SpecRelease == Init /\ [][ReleaseNext]_vars

\* ------------------------------------------------------------- effect toggles

\* AudioEffect::reset on a track's effect
ResetEffect(fx) == [fx EXCEPT !.used = FALSE]

\* toggle_current_track_<effect> alone, without the reset that follows it
toggle_current_track_effect_NoReset(fx, cur, e) ==
    [fx EXCEPT ![cur][e].enabled = ~@]

\* toggle_current_track_<effect>, then reset() if the effect is now disabled
toggle_current_track_effect(fx, cur, e) ==
    LET toggled == [fx EXCEPT ![cur][e].enabled = ~@]
    IN  IF ~toggled[cur][e].enabled
        THEN [toggled EXCEPT ![cur][e] = ResetEffect(@)]
        ELSE toggled

ToggleEffect(e) ==
    /\ track_fx' = toggle_current_track_effect(track_fx, current_track_id, e)
    /\ legacy_fx' = [legacy_fx EXCEPT ![e] = ~track_fx[current_track_id][e].enabled]
    /\ UNCHANGED <<tracks, current_track_id, recording_state, recorded_notes,
                   recording_start_time, playback_start_time, current_note_start,
                   pressed_key, key_release_time, release_legacy, sink,
                   LAST_LOOP_TIME, now, key_down, tick, pass>>
    /\ UNCHANGED outside_daw

\* EffectsToggleCommand::execute: F10, F11 or F12 pressed
EffectsToggleKey(e) ==
    /\ phase = "keyboard"
    /\ ToggleEffect(e)
    /\ phase' = "mouse"
    /\ last_op' = Op("EffectsToggleKey", current_track_id, "C",
                     track_fx[current_track_id][e].used, 0)

\* handle_effects_buttons_mouse: a click on the button of effect e
EffectsButtonClick(e) ==
    /\ PhaseRank(phase) <= PhaseRank("mouse")
    /\ ToggleEffect(e)
    /\ phase' = "playback"
    /\ last_op' = Op("EffectsButtonClick", current_track_id, "C",
                     track_fx[current_track_id][e].used, 0)

\* the audio path running an effect of a track over a sample
\* (AudioEffect::process_sample), which it does for enabled effects only
TrackEffectProcess(i, e) ==
    /\ track_fx[i][e].enabled
    /\ ~track_fx[i][e].used
    /\ track_fx' = [track_fx EXCEPT ![i][e].used = TRUE]
    /\ UNCHANGED <<daw_vars, legacy_fx>>
    /\ UNCHANGED outside_daw

FxToggleNext ==
    \/ \E e \in EffectKinds : EffectsToggleKey(e)
    \/ \E e \in EffectKinds : EffectsButtonClick(e)
    \/ \E i \in TrackIds : NameClick(i)
    \/ \E i \in TrackIds, e \in EffectKinds : TrackEffectProcess(i, e)
    \/ handle_playback
    \/ KeyReleaseControl
    \/ \E dt \in 1 .. MaxGap : EndFrame(dt)

SpecFxToggle == Init /\ [][FxToggleNext]_vars

\* notes played on tracks whose effects are switched on and off
MixerEndFrame(dt) == EndFrameTo(MixerMaxTime, dt)

MixerNext ==
    \/ \E e \in EffectKinds : EffectsToggleKey(e)
    \/ \E n \in NoteNames : MouseNote(n)
    \/ \E i \in TrackIds : NameClick(i)
    \/ handle_playback
    \/ KeyReleaseControl
    \/ \E dt \in 1 .. MaxGap : MixerEndFrame(dt)

SpecMixer == Init /\ [][MixerNext]_vars

\* ------------------------------------------------------------- track parameters

\* the four ADSR faders, in the order handle_adsr_fader_mouse visits them
ADSRParameters == {"attack", "decay", "sustain", "release"}

\* u8 addition that wraps (a build without overflow checks)
U8Add(a, b) == (a + b) % (U8Max + 1)

\* increase_current_track_<parameter> without the .min(99)
increase_current_track_Unbounded(value) == U8Add(value, 1)

\* increase_current_track_<parameter>: (value + 1).min(99)
increase_current_track(value) == Min(U8Add(value, 1), ParamMax)

\* decrease_current_track_<parameter>: value.saturating_sub(1)
decrease_current_track(value) == Max(value - 1, 0)

\* new_value of handle_adsr_fader_mouse for the mouse relative_y pixels below
\* the top of the fader: ((1.0 - (relative_y / 50).clamp(0, 1)) * 99.0) as u8
FaderValue(relative_y) ==
    ((FaderHeight - Max(0, Min(relative_y, FaderHeight))) * ParamMax) \div FaderHeight

\* the parameter written to the current track and synced to the legacy field
SetTrackParameter(parameter, value) ==
    /\ tracks' = [tracks EXCEPT ![current_track_id][parameter] = value]
    /\ IF parameter = "release"
       THEN /\ release_legacy' = value
            /\ UNCHANGED legacy_adsr
       ELSE /\ legacy_adsr' = [legacy_adsr EXCEPT ![parameter] = value]
            /\ UNCHANGED release_legacy
    /\ UNCHANGED <<current_track_id, recording_state, recorded_notes,
                   recording_start_time, playback_start_time, current_note_start,
                   pressed_key, key_release_time, sink, LAST_LOOP_TIME, now,
                   key_down, tick, pass>>
    /\ UNCHANGED <<fx_vars, adsr_vars, dsp_vars, midi_vars, wasm_vars, recording_track, release_runs>>

\* ADSRControlCommand::execute with its key pressed (one such key a frame)
ADSRControl(parameter, increase) ==
    LET value == IF increase
                 THEN increase_current_track(tracks[current_track_id][parameter])
                 ELSE decrease_current_track(tracks[current_track_id][parameter])
    IN  /\ phase = "keyboard"
        /\ SetTrackParameter(parameter, value)
        /\ phase' = "mouse"
        /\ last_op' = Op("ADSRControl", current_track_id, "C", increase, value)

\* handle_adsr_fader_mouse: a click or drag on the fader of the parameter
ADSRFader(parameter, relative_y) ==
    /\ PhaseRank(phase) <= PhaseRank("mouse")
    /\ SetTrackParameter(parameter, FaderValue(relative_y))
    /\ phase' = "playback"
    /\ last_op' = Op("ADSRFader", current_track_id, "C", FALSE, FaderValue(relative_y))

\* State::adjust_current_track_volume
adjust_current_track_volume(ts, cur, delta) ==
    [ts EXCEPT ![cur].volume = FClamp(FAdd(@, delta), Fin(0), Fin(Milli))]

\* State::adjust_current_track_pan
adjust_current_track_pan(ts, cur, delta) ==
    [ts EXCEPT ![cur].pan = FClamp(FAdd(@, delta), Fin(-Milli), Fin(Milli))]

\* a call of adjust_current_track_volume or adjust_current_track_pan, as
\* TrackControlCommand::execute makes it for the keys + - [ ]
AdjustTrack(name, adjusted) ==
    /\ phase = "keyboard"
    /\ tracks' = adjusted
    /\ phase' = "mouse"
    /\ last_op' = Op(name, current_track_id, "C", FALSE, 0)
    /\ UNCHANGED <<current_track_id, recording_state, recorded_notes,
                   recording_start_time, playback_start_time, current_note_start,
                   pressed_key, key_release_time, release_legacy, sink,
                   LAST_LOOP_TIME, now, key_down, tick, pass>>
    /\ UNCHANGED <<fx_vars, outside_daw>>

AdjustVolume(delta) ==
    AdjustTrack("AdjustVolume", adjust_current_track_volume(tracks, current_track_id, delta))

AdjustPan(delta) ==
    AdjustTrack("AdjustPan", adjust_current_track_pan(tracks, current_track_id, delta))

\* mouse positions on a fader, in pixels below its top
FaderOffsets == {0, 25, FaderHeight}

\* deltas given to the volume and pan adjustments: those of the key commands,
\* a large one and the special values
Deltas == {Fin(100), Fin(-100), Fin(200), Fin(-200), Fin(5 * Milli),
           PosInf, NegInf, NaN}

ParamsEndFrame(dt) == EndFrameTo(ParamsMaxTime, dt)

ParamsNext ==
    \/ \E parameter \in ADSRParameters, increase \in BOOLEAN :
          ADSRControl(parameter, increase)
    \/ \E parameter \in ADSRParameters, relative_y \in FaderOffsets :
          ADSRFader(parameter, relative_y)
    \/ \E delta \in Deltas : AdjustVolume(delta)
    \/ \E delta \in Deltas : AdjustPan(delta)
    \/ \E e \in EffectKinds : EffectsToggleKey(e)
    \/ \E e \in EffectKinds : EffectsButtonClick(e)
    \/ \E i \in TrackIds : NameClick(i)
    \/ \E i \in TrackIds : RecordClick(i)
    \/ handle_playback
    \/ KeyReleaseControl
    \/ \E dt \in 1 .. MaxGap : ParamsEndFrame(dt)

SpecParams == Init /\ [][ParamsNext]_vars

FxNext ==
    \/ \E input \in Inputs : ProcessSample(input)
    \/ Reset
    \/ \E t \in DelayTimes : SetDelayTime(t)
    \/ \E x \in FloatArgs : SetFeedback(x)
    \/ \E x \in FloatArgs : SetMix(x)
    \/ \E r \in LfoRates : SetLfoRate(r)
    \/ \E x \in FloatArgs : SetDepth(x)
    \/ \E x \in FloatArgs : SetRoomSize(x)
    \/ \E x \in FloatArgs : SetDamping(x)

SpecFxInit == FxInit /\ DawInit /\ ADSRIdle /\ MidiIdle /\ WasmIdle

SpecFx == SpecFxInit /\ [][FxNext]_vars

MidiNext ==
    \/ ExportTrack
    \/ \E damage \in Damages : Damage(damage)
    \/ ImportTrack
    \/ \E i \in 1 .. Len(PitchClasses), octave \in MidiOctaves :
          NoteToMidi(PitchClasses[i], octave)
    \/ \E text \in NoteTexts : NoteFromStr(text)

SpecMidiInit == MidiInit /\ DawInit /\ ADSRIdle /\ DspIdle /\ WasmIdle

SpecMidi == SpecMidiInit /\ [][MidiNext]_vars

SpecADSRInit == ADSRInit /\ DawInit /\ DspIdle /\ MidiIdle /\ WasmIdle

SpecADSRNext == ADSRNext \/ ADSRRelease

SpecADSR == SpecADSRInit /\ [][SpecADSRNext]_vars

\* ------------------------------------------------------------- claims: scheduler

\* the reference handle_playback compares timestamps with: the LAST_LOOP_TIME it
\* found, or -1 when the loop time fell below it
TickReference ==
    IF tick.loop_time < tick.last THEN LastLoopTimeReset ELSE tick.last

\* the notes of playing tracks whose timestamp lies in (reference, loop_time]
TickDue ==
    UNION { { [track |-> i, idx |-> k] :
                k \in { m \in 1 .. Len(tracks[i].recorded_notes) :
                          /\ TickReference < tracks[i].recorded_notes[m].timestamp
                          /\ tracks[i].recorded_notes[m].timestamp <= tick.loop_time } } :
            i \in { j \in TrackIds : tracks[j].playing /\ tracks[j].recorded_notes # <<>> } }

\* C1: a handle_playback call that gets past its early returns dispatches, once
\* each, exactly the notes of playing tracks with
\* last_loop_time < timestamp <= loop_time, last_loop_time being -1 when the loop
\* time fell below it, and leaves LAST_LOOP_TIME = loop_time
C1_DispatchWindow ==
    (last_op.name = "handle_playback" /\ tick.ran) =>
        /\ { tick.hits[j] : j \in 1 .. Len(tick.hits) } = TickDue
        /\ Len(tick.hits) = Cardinality(TickDue)
        /\ LAST_LOOP_TIME = tick.loop_time

\* a tick on which the loop wrapped: the reference is reset, a note at the start
\* of the loop is dispatched and a later note of the same track is not
C1_Witness ==
    /\ last_op.name = "handle_playback"
    /\ tick.ran
    /\ tick.loop_time < tick.last
    /\ tick.hits # <<>>
    /\ \E i \in TrackIds :
          /\ tracks[i].playing
          /\ \E k \in 1 .. Len(tracks[i].recorded_notes) :
                [track |-> i, idx |-> k] \notin { tick.hits[j] : j \in 1 .. Len(tick.hits) }

\* how often note k of track i was dispatched in the pass that ended last
DispatchesInDonePass(i, k) ==
    Cardinality({ j \in 1 .. Len(pass.done_hits) :
                    pass.done_hits[j] = [track |-> i, idx |-> k] })

\* C2: in a session ticked from its start with every gap shorter than the loop,
\* each note of each playing track is dispatched exactly once in every
\* completed pass of the loop
C2_EveryNoteOncePerPass ==
    (pass.valid /\ pass.done) =>
        \A i \in TrackIds :
            (tracks[i].playing /\ tracks[i].recorded_notes # <<>>) =>
                \A k \in 1 .. Len(tracks[i].recorded_notes) :
                    DispatchesInDonePass(i, k) = 1

\* ------------------------------------------------------------- claims: recording

\* C7: after Recording -> Stopped with a note held, the held note is the last
\* entry of the note list of the track that was being recorded
C7_HeldNoteFlushedToTrack ==
    (last_op.name = "stop_recording" /\ last_op.flag) =>
        LET notes == tracks[last_op.track].recorded_notes
        IN  /\ Len(notes) = last_op.count + 1
            /\ notes[Len(notes)].note = last_op.note

\* after start_track_recording: Recording, the clock started now, no held note,
\* the current track's list empty
StartedRecording ==
    last_op.name = "start_track_recording" =>
        /\ recording_state = "Recording"
        /\ recording_start_time = SomeInstant(now)
        /\ current_note_start = NoNoteStart
        /\ tracks[current_track_id].recorded_notes = <<>>
        /\ current_track_id = last_op.track

\* start_track_recording leaves the lists of the other tracks as they were
OtherTracksKept ==
    last_op'.name = "start_track_recording" =>
        \A j \in TrackIds \ {current_track_id'} :
            tracks'[j].recorded_notes = tracks[j].recorded_notes

\* C8: start_track_recording sets Recording, starts the recording clock, clears
\* the held note, empties the current track's note list and changes no other
\* track's note list
C8_StartTrackRecording == [](StartedRecording) /\ [][OtherTracksKept]_vars

\* recording started on a track that had notes while another track has notes
C8_Witness ==
    /\ last_op.name = "start_track_recording"
    /\ last_op.count > 0
    /\ \E j \in TrackIds \ {current_track_id} : tracks[j].recorded_notes # <<>>

EntersPlayingGuarded ==
    (recording_state # "Playing" /\ recording_state' = "Playing") =>
        \E i \in TrackIds : tracks'[i].playing /\ tracks'[i].recorded_notes # <<>>

\* C9: whenever recording_state becomes Playing, some track has playing = true
\* and a non-empty note list
C9_PlayingNeedsPlayingTrack == [][EntersPlayingGuarded]_vars

\* Playing entered from Recording by the play button
C9_Witness ==
    /\ last_op.name = "PlayClick"
    /\ last_op.flag
    /\ recording_state = "Playing"
    /\ recording_start_time.some

\* after a note-on from the keyboard or the mouse the sink holds the new source only
NoteOnAlone ==
    last_op.name \in {"KeyboardNote", "MouseNote"} =>
        sink = <<Source(last_op.track, last_op.note)>>

\* handle_playback keeps what the sink held and appends one source per dispatch
PlaybackAppends ==
    last_op'.name = "handle_playback" =>
        /\ Len(sink') = Len(sink) + Len(tick'.hits)
        /\ SubSeq(sink', 1, Len(sink)) = sink
        /\ \A j \in 1 .. Len(tick'.hits) :
              sink'[Len(sink) + j] =
                Source(tick'.hits[j].track,
                       tracks[tick'.hits[j].track].recorded_notes[tick'.hits[j].idx].note)

\* C10: handle_musical_note leaves exactly the new source in the sink;
\* handle_playback appends its dispatches behind everything the sink held
C10_SinkDiscipline == [](NoteOnAlone) /\ [][PlaybackAppends]_vars

\* a key note and a scheduled note in one frame: the sink holds the key's source
\* followed by the dispatched ones
C10_Witness ==
    /\ last_op.name = "handle_playback"
    /\ key_down
    /\ tick.hits # <<>>
    /\ Len(sink) = Len(tick.hits) + 1
    /\ sink[1].track = current_track_id

\* ------------------------------------------------------------- claims: effect toggles

\* every disabled effect of every track is in its reset state
DisabledEffectsReset ==
    \A i \in TrackIds, e \in EffectKinds :
        ~track_fx[i][e].enabled => ~track_fx[i][e].used

\* an effect that goes from enabled to disabled is reset by that step
DisablingResets ==
    \A i \in TrackIds, e \in EffectKinds :
        (track_fx[i][e].enabled /\ ~track_fx'[i][e].enabled) => ~track_fx'[i][e].used

\* C11: after any sequence of effect toggles (keys or buttons) and track
\* switches, every disabled effect of every track is in its reset state, and
\* each step that disables an effect resets it
C11_DisabledEffectIsReset == [](DisabledEffectsReset) /\ [][DisablingResets]_vars

\* an effect that had processed samples was switched off on a track other than
\* the first, while the legacy flag mirrors it
C11_Witness ==
    /\ last_op.name \in {"EffectsToggleKey", "EffectsButtonClick"}
    /\ last_op.flag
    /\ last_op.track # 0
    /\ \E e \in EffectKinds :
          /\ ~track_fx[last_op.track][e].enabled
          /\ ~legacy_fx[e]
          /\ \E f \in EffectKinds \ {e} : track_fx[last_op.track][f].used

\* ------------------------------------------------------------- claims: ADSR envelope

\* attack_samples + decay_samples + max_sustain_samples + release_samples + 1
TerminationBound(e) ==
    e.attack_samples + e.decay_samples + e.max_sustain_samples + e.release_samples + 1

\* C3: with no explicit release(), next() over a never-ending source returns None
\* at the latest at call attack_samples + decay_samples + max_sustain_samples +
\* release_samples + 1: no more calls than that are ever answered, and the call
\* with that number has returned None.
C3_EnvelopeTerminates ==
    released_by # "explicit" =>
        /\ calls <= TerminationBound(env)
        /\ (calls = TerminationBound(env) => finished)

\* C3 witness: an envelope with nonzero attack and decay that auto-released and
\* ended exactly at the bound
C3_Witness ==
    /\ released_by = "auto"
    /\ finished
    /\ calls = TerminationBound(env)
    /\ env.attack_samples > 0
    /\ env.decay_samples > 0

\* C4 (as claimed): every release sample lies on the straight line from the
\* amplitude the envelope had when release was triggered down to 0 over
\* release_samples; in particular the first release sample has that amplitude.
C4_ReleaseRampsFromCurrentLevel ==
    (out.some /\ ~out.none /\ out.phase = "release") =>
        RatEq(out.amp,
              Rat(amp_at_release.n * (env.release_samples - out.progress),
                  amp_at_release.d * env.release_samples))

\* once set, release_start_sample is not changed by a step
ReleaseStartKept ==
    env.release_start_sample.some => env'.release_start_sample = env.release_start_sample

\* is_released mirrors release_start_sample, which is never ahead of sample_count
ReleaseFieldsConsistent ==
    /\ env.is_released <=> env.release_start_sample.some
    /\ env.release_start_sample.some => env.release_start_sample.val <= env.sample_count

\* C5: once release_start_sample is set it keeps its value under every next() and
\* release() call, is_released is true exactly when it is set, and it never
\* exceeds sample_count.
C5_ReleaseStartStable == [](ReleaseFieldsConsistent) /\ [][ReleaseStartKept]_vars

\* C5 witness: an explicitly released envelope that has been advanced past its
\* release start
C5_Witness ==
    /\ released_by = "explicit"
    /\ env.release_start_sample.some
    /\ env.sample_count > env.release_start_sample.val + 1

\* one step of the decay ramp and of the release ramp
DecayStep(e) == Rat(SustainDen - e.sustain_level, SustainDen * e.decay_samples)
ReleaseStep(e) == Rat(e.sustain_level, SustainDen * e.release_samples)

\* C6: between two consecutive samples the amplitude does not fall inside the
\* attack, does not rise inside the decay or inside the release, and with nonzero
\* attack and decay lengths it moves by at most one ramp step across the
\* attack/decay, decay/sustain and sustain/release boundaries.
C6_MonotoneAndContinuous ==
    (out.some /\ prev_out.some /\ ~out.none /\ ~prev_out.none) =>
        /\ (prev_out.phase = "attack" /\ out.phase = "attack") => RatLe(prev_out.amp, out.amp)
        /\ (prev_out.phase = "decay" /\ out.phase = "decay") => RatLe(out.amp, prev_out.amp)
        /\ (prev_out.phase = "release" /\ out.phase = "release") => RatLe(out.amp, prev_out.amp)
        /\ (env.attack_samples > 0 /\ env.decay_samples > 0) =>
              /\ (prev_out.phase = "attack" /\ out.phase = "decay") =>
                    RatAbsDiffLe(prev_out.amp, out.amp, DecayStep(env))
              /\ (prev_out.phase = "decay" /\ out.phase = "sustain") =>
                    RatAbsDiffLe(prev_out.amp, out.amp, DecayStep(env))
              /\ (prev_out.phase = "sustain" /\ out.phase = "release") =>
                    RatAbsDiffLe(prev_out.amp, out.amp, ReleaseStep(env))

\* C6 witness: an envelope with nonzero attack and decay and a sustain level
\* strictly between 0 and 1 whose last two samples straddle the attack/decay
\* boundary
C6_Witness ==
    /\ out.some /\ prev_out.some /\ ~out.none
    /\ prev_out.phase = "attack" /\ out.phase = "decay"
    /\ env.attack_samples > 1 /\ env.decay_samples > 1
    /\ env.sustain_level > 0 /\ env.sustain_level < SustainDen


\* ----------------------------------------------------------- effect claims

\* the wet output the three taps give k calls after a unit impulse, in
\* thousandths; taps of equal length add up
ImpulseExpected(e, k) ==
    (IF k = e.delay_samples THEN 600 ELSE 0)
    + (IF k = e.tap1_samples THEN 250 ELSE 0)
    + (IF k = e.tap2_samples THEN 150 ELSE 0)

\* the delay is set up as the claim says and an impulse is on its way
ImpulseProbe ==
    /\ effect.kind = "delay"
    /\ effect.fault = "none"
    /\ effect.delay_samples >= 1
    /\ effect.feedback = Fin(0)
    /\ effect.mix = Fin(1000)
    /\ fx_log.op = "process_sample"
    /\ fx_log.probe >= 0

\* C12: a DelayEffect with feedback 0 and mix 1 and a delay of at least one
\* sample answers a unit impulse given at call n with 0.6 at call
\* n + delay_samples, 0.25 at n + tap1_samples, 0.15 at n + tap2_samples and
\* 0 at every other call.
C12_ImpulseResponse ==
    ImpulseProbe => fx_log.output = Fin(ImpulseExpected(effect, fx_log.probe))

\* the largest delay, in samples, a delay or flanger buffer is asked to address
LargestDelay(e) ==
    IF e.kind = "delay"
    THEN Max(e.delay_samples, Max(e.tap1_samples, e.tap2_samples))
    ELSE AsUsize(FAdd(e.delay_base, e.delay_range))

\* a panic of the per-sample step
StepFaults == {"index_out_of_bounds", "subtract_overflow"}

\* C13: after any sequence of process_sample, setter and reset calls on a
\* Delay, Reverb or Flanger every cursor is smaller than the length of its
\* buffer, every buffer has at least one element and at least as many as the
\* largest delay it is asked to address, and no process_sample call indexes
\* outside a buffer or takes an unsigned subtraction below zero.
C13_CursorsInsideBuffers ==
    /\ effect.fault \notin StepFaults
    /\ (effect.kind \in {"delay", "flanger"} /\ effect.fault = "none") =>
          /\ effect.write_index < Len(effect.buffer)
          /\ Len(effect.buffer) >= 1
          /\ Len(effect.buffer) >= LargestDelay(effect)
    /\ effect.kind = "reverb" =>
          /\ ~ReverbIndexOutside(effect)
          /\ \A i \in 1 .. Len(effect.comb_delays) : Len(effect.comb_delays[i]) >= 1
          /\ \A i \in 1 .. Len(effect.allpass_delays) :
                Len(effect.allpass_delays[i]) >= 1

\* C14: once reset() has been called on a Delay, Reverb or Flanger, every
\* process_sample(0.0) call that follows returns 0.0.
C14_SilentAfterReset ==
    (fx_log.op = "process_sample" /\ fx_log.was_reset) => fx_log.output = Fin(0)

\* C15: whatever arguments the constructors and setters of the three effects
\* are given, the delay's feedback is in [0, 0.95] after construction and in
\* [0, 0.99] after set_feedback, every mix is in [0, 1], the flanger's depth is
\* in [0, 1] and its feedback in [0, 0.99], and the reverb's room_size and
\* damping are in [0, 1].
C15_ParametersInRange ==
    /\ effect.kind = "delay" =>
          /\ InRange(effect.feedback, 0, IF fx_log.feedback_set THEN 990 ELSE 950)
          /\ InRange(effect.mix, 0, 1000)
    /\ effect.kind = "flanger" =>
          /\ InRange(effect.depth, 0, 1000)
          /\ InRange(effect.feedback, 0, 990)
          /\ InRange(effect.mix, 0, 1000)
    /\ effect.kind = "reverb" =>
          /\ InRange(effect.room_size, 0, 1000)
          /\ InRange(effect.damping, 0, 1000)
          /\ InRange(effect.mix, 0, 1000)

\* ------------------------------------------------------------- MIDI claims

\* one tick of 480 to the quarter at 120 BPM, in the unit of the timestamps
TickLen == MidiTimeDen \div (QuartersPerSecond * TicksPerQuarter)

WithinOneTick(a, b) == a - b <= TickLen /\ b - a <= TickLen

\* the file exported from midi.notes was imported as it was written
RoundTripDone == midi.stage = "imported" /\ midi.damage = "none"

\* C16: a list of recorded notes that is exported to MIDI and imported again
\* comes back with, for each note, a timestamp and a duration within one tick
\* of the original, also when notes overlap in time or share a pitch.
C16_RoundTripWithinOneTick ==
    RoundTripDone =>
        /\ midi.result.ok
        /\ Len(midi.result.notes) = Len(midi.notes)
        /\ \A i \in 1 .. Len(midi.notes) :
              /\ WithinOneTick(midi.result.notes[i].timestamp,
                               SortByTimestamp(midi.notes)[i].timestamp)
              /\ WithinOneTick(midi.result.notes[i].duration,
                               SortByTimestamp(midi.notes)[i].duration)

\* C17: for every pitch class and octave, midi_number_to_note of
\* note_to_midi_number(note, octave) is the same note and octave.
C17_PitchRoundTrip ==
    midi.stage = "converted" =>
        midi.pitch.back = [note |-> midi.pitch.note, octave |-> midi.pitch.octave]

\* C18: Note::from_str returns Err for every string that is not one of the
\* twelve note names, and converting a note and octave whose MIDI number is
\* outside 0..127 fails instead of giving a number in range.
C18_InvalidInputIsAnError ==
    /\ (midi.stage = "parsed"
            /\ midi.parsed.text \notin {PitchClasses[i] : i \in 1 .. Len(PitchClasses)})
          => ~midi.parsed.result.ok
    /\ (midi.stage = "converted"
            /\ note_to_midi_number_Unclamped(midi.pitch.note, midi.pitch.octave)
                   \notin 0 .. 127)
          => ~midi.pitch.ok

\* C19: import_midi_to_track returns an error for a file with a bad header
\* magic, for a track chunk whose declared length runs past the end of the
\* data, and for an invalid variable-length quantity, and never Ok with a
\* partial or empty list.
C19_MalformedFileIsAnError ==
    (midi.stage = "imported" /\ midi.damage # "none") => ~midi.result.ok

\* the step is the import button's call of import_midi_to_synthesizer_track
ImportStep == last_op'.name = "ImportClick" /\ phase # "playback" /\ phase' = "playback"

ImportKeepsState ==
    ImportStep =>
        /\ UNCHANGED <<current_track_id, recording_state, recorded_notes,
                       recording_start_time, playback_start_time, current_note_start,
                       pressed_key, key_release_time, release_legacy, sink,
                       LAST_LOOP_TIME, fx_vars>>
        /\ ~last_op'.flag => tracks' = tracks
        /\ last_op'.flag =>
              /\ \A j \in TrackIds \ {current_track_id} : tracks'[j] = tracks[j]
              /\ [tracks'[current_track_id] EXCEPT !.recorded_notes = <<>>]
                    = [tracks[current_track_id] EXCEPT !.recorded_notes = <<>>]

\* C20: when import_midi_to_synthesizer_track returns an error the note lists
\* of all tracks and the rest of the state are as before; when it succeeds
\* only the target track's note list is replaced.
C20_ImportErrorKeepsState == [][ImportKeepsState]_vars

\* an import failed on a track that holds notes
C20_Witness ==
    /\ last_op.name = "ImportClick"
    /\ ~last_op.flag
    /\ phase = "playback"
    /\ tracks[current_track_id].recorded_notes # <<>>

\* ------------------------------------------------------------- claims: loop time

\* note.timestamp + note.duration of every note of a playing track with notes
PlayingNoteEnds ==
    UNION { { tracks[i].recorded_notes[k].timestamp + tracks[i].recorded_notes[k].duration :
                k \in 1 .. Len(tracks[i].recorded_notes) } :
            i \in {j \in TrackIds : tracks[j].playing /\ tracks[j].recorded_notes # <<>>} }

\* their maximum
LoopDuration == CHOOSE d \in PlayingNoteEnds : \A x \in PlayingNoteEnds : x <= d

\* handle_playback has just computed a loop time
Ticked == phase = "release" /\ tick.ran

\* C21: on each scheduler tick loop_time is current_time modulo the largest
\* timestamp + duration over the notes of the playing tracks when that is
\* positive, and current_time itself when it is zero; so loop_time is at
\* least 0 and below the loop duration whenever the loop duration is positive.
C21_LoopTime ==
    Ticked =>
        LET current_time == now - playback_start_time.val
        IN  /\ LoopDuration > 0 =>
                 /\ tick.loop_time = current_time % LoopDuration
                 /\ 0 <= tick.loop_time /\ tick.loop_time < LoopDuration
            /\ LoopDuration = 0 => tick.loop_time = current_time

\* a tick in a later pass of a loop, with two tracks of different length playing
C21_Witness ==
    /\ Ticked
    /\ \A i \in TrackIds : tracks[i].playing
    /\ TrackLoopDuration(tracks[0]) < TrackLoopDuration(tracks[1])
    /\ now - playback_start_time.val > LoopDuration
    /\ tick.loop_time > 0

\* ------------------------------------------------------------- claims: track parameters

\* the step is a call of adjust_current_track_volume or adjust_current_track_pan
AdjustStep ==
    /\ last_op'.name \in {"AdjustVolume", "AdjustPan"}
    /\ phase = "keyboard" /\ phase' = "mouse"

\* volume in [0, 1] and pan in [-1, 1] on every track
VolumeAndPanInRange ==
    \A i \in TrackIds :
        /\ InRange(tracks[i].volume, 0, Milli)
        /\ InRange(tracks[i].pan, -Milli, Milli)

\* C22: after any sequence of volume and pan adjustments with arbitrary
\* deltas and any track switches, every track's volume is in [0, 1] and every
\* track's pan is in [-1, 1]; an adjustment changes only the current track.
C22_VolumeAndPanClamped ==
    /\ []VolumeAndPanInRange
    /\ [][AdjustStep =>
            \A j \in TrackIds \ {current_track_id} : tracks'[j] = tracks[j]]_vars

\* the ADSR parameters of track i
TrackADSR(i) == [parameter \in ADSRParameters |-> tracks[i][parameter]]

\* the step is an ADSR key command or a fader click or drag
ADSREditStep ==
    \/ last_op'.name = "ADSRControl" /\ phase = "keyboard" /\ phase' = "mouse"
    \/ last_op'.name = "ADSRFader" /\ phase # "playback" /\ phase' = "playback"

\* every ADSR parameter of every track is in 0..99, so that adding 1 stays
\* inside the u8
ADSRInRange ==
    \A i \in TrackIds, parameter \in ADSRParameters :
        /\ TrackADSR(i)[parameter] \in 0 .. ParamMax
        /\ TrackADSR(i)[parameter] + 1 <= U8Max

\* C23: after any sequence of ADSR increase/decrease commands, fader clicks
\* or drags and track switches, attack, decay, sustain and release of every
\* track are in 0..99; no step overflows or underflows the 8-bit value, and
\* an edit changes only the current track.
C23_ADSRInRange ==
    /\ []ADSRInRange
    /\ [][ADSREditStep =>
            \A j \in TrackIds \ {current_track_id} : tracks'[j] = tracks[j]]_vars

\* a parameter of the current track was taken to 99 by its fader and then
\* increased by its key, the other tracks keeping what they had
C23_Witness ==
    /\ last_op.name = "ADSRControl" /\ last_op.flag /\ last_op.count = ParamMax
    /\ \E parameter \in ADSRParameters : tracks[current_track_id][parameter] = ParamMax
    /\ \A j \in TrackIds \ {current_track_id} : tracks[j] = NewTrack

\* C29: in every reachable state the legacy fields attack, decay, sustain,
\* release, delay_enabled, reverb_enabled and flanger_enabled equal the
\* fields of the current track, whatever track switches, ADSR edits and
\* effect toggles came before.
C29_LegacyFollowsCurrentTrack ==
    /\ legacy_adsr.attack = tracks[current_track_id].attack
    /\ legacy_adsr.decay = tracks[current_track_id].decay
    /\ legacy_adsr.sustain = tracks[current_track_id].sustain
    /\ release_legacy = tracks[current_track_id].release
    /\ \A e \in EffectKinds : legacy_fx[e] = track_fx[current_track_id][e].enabled

\* ------------------------------------------------- claims: delay time

\* a set_delay_time call that returned
SetDelayTimeStep ==
    /\ fx_log'.op = "set_delay_time"
    /\ fx_log'.setters = fx_log.setters + 1
    /\ effect'.fault = "none"

\* the buffer is no shorter than it was and holds what it held, index by index
BufferKept ==
    /\ Len(effect'.buffer) >= Len(effect.buffer)
    /\ \A i \in 1 .. Len(effect.buffer) : effect'.buffer[i] = effect.buffer[i]

\* the buffer is strictly longer than the delay, and the taps are the whole
\* samples in 61.8% and 38.2% of the delay
BufferCoversDelay ==
    /\ Len(effect'.buffer) > effect'.delay_samples
    /\ effect'.tap1_samples = (618 * effect'.delay_samples) \div 1000
    /\ effect'.tap2_samples = (382 * effect'.delay_samples) \div 1000

\* C24: a set_delay_time call never shortens the buffer of a DelayEffect and
\* leaves every stored sample at its index; after the call the buffer is
\* strictly longer than the new delay_samples and tap1_samples, tap2_samples
\* are 61.8% and 38.2% of it.
C24_SetDelayTimeKeepsBuffer ==
    [][SetDelayTimeStep => BufferKept /\ BufferCoversDelay]_vars

\* ------------------------------------------------------- claims: reset

\* the fields reset() writes: buffers, cursors, damping state and LFO phase
ResetFields ==
    {"buffer", "write_index", "damping_filter", "lfo_phase",
     "comb_delays", "allpass_delays", "comb_indices", "allpass_indices"}

\* the lengths of the buffers of e
BufferLengths(e) ==
    IF e.kind = "reverb"
    THEN <<[i \in DOMAIN e.comb_delays |-> Len(e.comb_delays[i])],
           [i \in DOMAIN e.allpass_delays |-> Len(e.allpass_delays[i])],
           Len(e.comb_indices), Len(e.allpass_indices)>>
    ELSE <<Len(e.buffer)>>

ResetKeepsSettings ==
    fx_log'.op = "reset" =>
        /\ DOMAIN effect' = DOMAIN effect
        /\ \A f \in DOMAIN effect \ ResetFields : effect'[f] = effect[f]
        /\ BufferLengths(effect') = BufferLengths(effect)

\* C25: reset() of DelayEffect, ReverbEffect and FlangerEffect writes only
\* buffers, cursors, damping state and LFO phase: delay_samples, the tap
\* lengths, feedback, mix, depth, LFO rate, room_size, damping, the comb
\* feedback coefficients and every buffer length are what they were.
C25_ResetKeepsSettings == [][ResetKeepsSettings]_vars

\* a reset after samples were processed and a setter had changed a setting
C25_Witness ==
    /\ fx_log.op = "reset" /\ fx_log.calls > 0 /\ fx_log.setters > 0
    /\ effect.kind = "delay" /\ effect.feedback # Fin(0)

\* ------------------------------------ claims: playback and key release

\* the sources handle_playback appended in the last tick, in order
DispatchedSources ==
    [j \in 1 .. Len(tick.hits) |->
       Source(tick.hits[j].track,
              tracks[tick.hits[j].track].recorded_notes[tick.hits[j].idx].note)]

\* RecordingControlCommand::execute has finished a tick that dispatched notes
AfterDispatchingTick ==
    phase = "update" /\ tick.ran /\ tick.hits # <<>>

\* C26: when RecordingControlCommand::execute finishes a tick in which
\* handle_playback dispatched notes, those notes are still in the sink,
\* whatever the release setting: the key-release logic does not stop the sink
\* because of the pressed_key that handle_playback set.
C26_DispatchedNotesStayInSink ==
    AfterDispatchingTick =>
        /\ Len(sink) >= Len(tick.hits)
        /\ SubSeq(sink, Len(sink) - Len(tick.hits) + 1, Len(sink)) = DispatchedSources

\* the first handle_playback tick of a playback session: the one in the frame
\* of the play click that started the session
FirstTickOfSession ==
    /\ phase = "release" /\ tick.ran
    /\ playback_start_time.some /\ now = playback_start_time.val

\* the notes of playing tracks whose timestamp is at most the loop time of
\* the tick and no more than 50 ms before it
DueAtTick ==
    UNION { { [track |-> i, idx |-> k] :
                k \in { n \in 1 .. Len(tracks[i].recorded_notes) :
                          /\ tracks[i].recorded_notes[n].timestamp <= tick.loop_time
                          /\ tick.loop_time <
                               tracks[i].recorded_notes[n].timestamp + FrameTimeThreshold } } :
            i \in playing_tracks(tracks) }

\* C27: the first tick of every playback session, the first session or a
\* later one after a stop, dispatches every note of a playing track whose
\* timestamp is at most the tick's loop time (within the 50 ms window), the
\* notes at timestamp 0 among them, whatever LAST_LOOP_TIME an earlier
\* session left.
C27_FirstTickDispatchesDueNotes ==
    FirstTickOfSession =>
        \A h \in DueAtTick : \E j \in 1 .. Len(tick.hits) : tick.hits[j] = h

\* ---------------------------------------------- claims: recording session

\* a note key pressed while recording with a note held: the held note is
\* finished and captured (KeyboardInputCommand::execute and the piano clicks)
CaptureStep ==
    /\ recording_state = "Recording" /\ current_note_start.some
    /\ phase' # phase
    /\ last_op'.name \in {"KeyboardNote", "MouseNote"}

\* C28: a note captured during a recording session is appended to the track on
\* which the recording was started and to no other track, also when the
\* current track was switched during the session, and the notes are appended
\* in non-decreasing timestamp order: the note that starts at the capture,
\* the next to be appended, has a timestamp no smaller than the captured one.
C28_CapturedOnRecordingTrack ==
    [][CaptureStep =>
         /\ tracks'[recording_track].recorded_notes =
              Append(tracks[recording_track].recorded_notes, HeldNote)
         /\ \A j \in TrackIds \ {recording_track} : tracks'[j] = tracks[j]
         /\ current_note_start'.some
         /\ HeldNote.timestamp <=
              current_note_start'.start_time - recording_start_time.val]_vars

\* ----------------------------------------------------- claims: key release

\* C30: after a musical key press the key-release branch of
\* RecordingControlCommand::execute (key_release_time set and, for a release of
\* at most 10, the sink stopped) runs at most once until pressed_key is set
\* again; it does not run again once key_release_time has been cleared.
C30_KeyReleaseRunsOnce == release_runs <= 1

\* ------------------------------------------------ claims: playing state

\* C31: in every reachable state with recording_state = Playing some track has
\* playing = true and a non-empty recorded-note list, under play, record and
\* stop clicks, track switches and MIDI imports.
C31_PlayingHasPlayingTrack ==
    recording_state = "Playing" => playing_tracks(tracks) # {}

\* C32: in every reachable state playback_start_time is set exactly when
\* recording_state = Playing, and recording_state = Recording implies that
\* recording_start_time is set, under record, play and stop clicks on any track.
C32_ClocksFollowState ==
    /\ playback_start_time.some <=> recording_state = "Playing"
    /\ recording_state = "Recording" => recording_start_time.some

\* recording was started from Playing: the playback clock is cleared and the
\* recording clock runs
C32_Witness ==
    /\ last_op.name = "start_track_recording" /\ last_op.flag
    /\ recording_state = "Recording" /\ recording_start_time.some
    /\ ~playback_start_time.some

\* a click on the play button of track i
PlayButtonStep(i) ==
    /\ phase # "playback" /\ phase' = "playback"
    /\ last_op'.name \in {"PlayClick", "PlayClickEmpty"} /\ last_op'.track = i

\* what the click on the play button of track i does
PlayButtonEffect(i) ==
    IF tracks[i].recorded_notes = <<>>
    THEN UNCHANGED <<tracks, current_track_id, recording_state, recorded_notes,
                     recording_start_time, playback_start_time, current_note_start,
                     pressed_key, key_release_time, sink>>
    ELSE /\ tracks'[i].playing = ~tracks[i].playing
         /\ \A j \in TrackIds \ {i} : tracks'[j] = tracks[j]
         /\ IF \E j \in TrackIds : tracks'[j].playing /\ tracks'[j].recorded_notes # <<>>
            THEN /\ recording_state' = "Playing"
                 /\ playback_start_time'.some
                 /\ IF recording_state = "Playing"
                    THEN playback_start_time' = playback_start_time
                    ELSE playback_start_time'.val = now
            ELSE /\ recording_state' = "Stopped"
                 /\ ~playback_start_time'.some

\* C33: a click on a track's play button toggles the track's playing flag only
\* if the track has notes and otherwise changes nothing; after a toggle the
\* state is Playing if some track is playing with notes, the playback clock
\* being started only if the state was not Playing before, and Stopped with
\* playback_start_time cleared if no track is playing.
C33_PlayButton == [][\A i \in TrackIds : PlayButtonStep(i) => PlayButtonEffect(i)]_vars

\* a second track was switched on while the first was playing, after the
\* clock had been started
C33_Witness ==
    /\ last_op.name = "PlayClick" /\ ~last_op.flag
    /\ recording_state = "Playing"
    /\ playback_start_time.some /\ playback_start_time.val < now
    /\ \A j \in TrackIds : tracks[j].playing

\* ---------------------------------------------------- claims: stop button

SustainCeiling(e) == e.attack_samples + e.decay_samples + e.max_sustain_samples

\* C35: with no explicit release(), every next() call up to and including call
\* attack_samples + decay_samples + max_sustain_samples returns a sample, the
\* calls after the decay returning sustain_level; release starts at the call
\* that takes the sample count past that sum, and at no earlier call.
C35_AutoReleaseAtCeiling ==
    released_by # "explicit" =>
        /\ (calls >= 1 /\ calls <= SustainCeiling(env)) =>
              /\ out.some /\ ~out.none /\ ~finished
              /\ ~env.is_released /\ ~env.release_start_sample.some
        /\ (calls > env.attack_samples + env.decay_samples + 1
              /\ calls <= SustainCeiling(env)) =>
              RatEq(out.amp, Rat(env.sustain_level, SustainDen))
        /\ calls = SustainCeiling(env) + 1 =>
              /\ env.is_released /\ released_by = "auto"
              /\ env.release_start_sample = SomeSample(SustainCeiling(env) + 1)

\* an envelope with attack, decay and a sustain level strictly between 0 and 1
\* that has just been released by the call after its ceiling
C35_Witness ==
    /\ released_by = "auto"
    /\ calls = SustainCeiling(env) + 1
    /\ env.attack_samples > 0 /\ env.decay_samples > 0
    /\ env.sustain_level > 0 /\ env.sustain_level < SustainDen
    /\ out.phase = "sustain"

\* -------------------------------------------------------- claims: mixer

\* every setting of the three effect flags, with either history
FlagSettings == [EffectKinds -> [enabled : BOOLEAN, used : BOOLEAN]]

\* a note key or piano click: play_note_on_track on the current track
PlayNoteStep ==
    /\ phase' # phase
    /\ last_op'.name \in {"KeyboardNote", "MouseNote"}

SetRoomSizeStep ==
    /\ fx_log'.op = "set_room_size"
    /\ fx_log'.setters = fx_log.setters + 1

\* 0.6 + r * 0.35 scaled by the variation factor of comb filter i (from 1)
CombFeedbackFor(r, i) ==
    FMul(FAdd(Fin(600), FMul(r, Fin(350))), Fin(Milli + ((i - 1) * 20 - 70)))

\* C37: for every room size r, after set_room_size(r) the eight comb feedback
\* coefficients are those of a ReverbEffect constructed with room size r, each
\* 0.6 + r * 0.35 scaled by its per-filter variation factor.
C37_SetRoomSizeAsConstructed ==
    [][SetRoomSizeStep =>
         \A r \in FloatArgs :
            effect' = ReverbSetRoomSize(effect, r) =>
               /\ effect'.comb_feedback =
                    ReverbNew(r, effect.damping, effect.mix, ReverbSampleRate).comb_feedback
               /\ \A i \in 1 .. Len(comb_delays_ms) :
                     effect'.comb_feedback[i] = CombFeedbackFor(r, i)]_vars

\* C38: every comb feedback coefficient of a ReverbEffect is strictly below
\* 1.0, whatever room_size was given to new or to set_room_size.
C38_CombFeedbackBelowOne ==
    effect.kind = "reverb" =>
        \A i \in 1 .. Len(effect.comb_feedback) :
           FLt(effect.comb_feedback[i], Fin(Milli))

\* the current track has an active oscillator and it plays a note whose key
\* is still held
HeldNoteSounding ==
    /\ active_oscillators[current_track].some
    /\ active_oscillators[current_track].note \in pressed_keys

\* C39: with audio initialised, every key event keeps a held note sounding:
\* from a state where pressed_keys is empty or the current track's oscillator
\* plays a held note, a handle_key_down or handle_key_up that leaves a note
\* in pressed_keys leaves the current track with an oscillator playing a held
\* note, so releasing one key never silences another key that is still held
C39_HeldKeysKeepSounding ==
    [][(/\ audio_context
        /\ pressed_keys # {} => HeldNoteSounding
        /\ pressed_keys' # {}) => HeldNoteSounding']_vars

====
